---- MODULE Spec2Model ----
(***************************************************************************)
(* Decimal floating point (IEEE 754-2008, BID encoding) of the package     *)
(* fixedpoint: the X32/X64 codec, the rounding engine, and the computation *)
(* context (Parse, Add, HandleSignals, ClearSignals, accessors).           *)
(*                                                                         *)
(* Unsigned machine words (uint32, uint64) are little-endian sequences of  *)
(* 16-bit limbs (2 limbs for uint32, 4 for uint64), so that every          *)
(* operation keeps the width the Go code has: arithmetic wraps modulo      *)
(* 2^32 or 2^64 and the bit fields of the packed formats are the real      *)
(* ones.  Signed exponents (int8, int16) are integers wrapped by ToInt8    *)
(* and ToInt16.  Strings are sequences of one-character strings.           *)
(***************************************************************************)
EXTENDS Integers, Sequences, FiniteSets, TLC

VARIABLES
    ctx,    \* the context: [traps, signals, precision, rounding, locale]
    fmt,    \* "X64" for a Context64, "X32" for a Context32
    last,   \* the last call: its name, its arguments and what it returned
    payloadMap,     \* the process-wide table: payload -> DiagnosticInfo
    payloadMutex,   \* the mutex of the table: TRUE while it is locked
    goroutines      \* each goroutine's call on the table and its position

\* The diagnostic payload table and its callers
registry == <<payloadMap, payloadMutex, goroutines>>

vars == <<ctx, fmt, last, payloadMap, payloadMutex, goroutines>>

----------------------------------------------------------------------------
(* Fixed-width unsigned words as limbs.                                    *)

Base == 2^16

Limb(x, i) == IF i >= 1 /\ i <= Len(x) THEN x[i] ELSE 0

\* The limbs f[1..w] as an explicit tuple (w from 2 to 6).
Word(f, w) ==
    IF w = 2 THEN <<f[1], f[2]>>
    ELSE IF w = 3 THEN <<f[1], f[2], f[3]>>
    ELSE IF w = 4 THEN <<f[1], f[2], f[3], f[4]>>
    ELSE IF w = 5 THEN <<f[1], f[2], f[3], f[4], f[5]>>
    ELSE <<f[1], f[2], f[3], f[4], f[5], f[6]>>

\* The word of w limbs holding the small number n (0 <= n < 2^31).
UInt(n, w) ==
    Word([i \in 1..w |-> IF i = 1 THEN n % Base
                         ELSE IF i = 2 THEN (n \div Base) % Base
                         ELSE 0], w)

U32(n) == UInt(n, 2)
U64(n) == UInt(n, 4)

UZero(w) == Word([i \in 1..w |-> 0], w)

\* x < 2^30: the word can be read back as an integer of the model.
IsSmall(x) == x[2] < 2^14 /\ \A i \in 3..Len(x) : x[i] = 0

UVal(x) == x[1] + Base * x[2]

RECURSIVE UCmpFrom(_, _, _)
UCmpFrom(x, y, i) ==
    IF i = 0 THEN 0
    ELSE IF x[i] < y[i] THEN -1
    ELSE IF x[i] > y[i] THEN 1
    ELSE UCmpFrom(x, y, i - 1)

UCmp(x, y) == UCmpFrom(x, y, Len(x))
ULt(x, y) == UCmp(x, y) < 0
ULe(x, y) == UCmp(x, y) <= 0
UGt(x, y) == UCmp(x, y) > 0
UGe(x, y) == UCmp(x, y) >= 0

RECURSIVE UAddFrom(_, _, _, _)
UAddFrom(x, y, i, c) ==
    IF i > Len(x) THEN <<>>
    ELSE LET s == x[i] + y[i] + c
         IN <<s % Base>> \o UAddFrom(x, y, i + 1, s \div Base)

\* x + y modulo 2^(16 * Len(x))
UAdd(x, y) == UAddFrom(x, y, 1, 0)

RECURSIVE USubFrom(_, _, _, _)
USubFrom(x, y, i, b) ==
    IF i > Len(x) THEN <<>>
    ELSE LET d == x[i] - y[i] - b
         IN <<d % Base>> \o USubFrom(x, y, i + 1, IF d < 0 THEN 1 ELSE 0)

\* x - y modulo 2^(16 * Len(x))
USub(x, y) == USubFrom(x, y, 1, 0)

\* x << n and x >> n (a count of the word's width or more gives 0, as in Go)
UShl(x, n) ==
    LET q == n \div 16
        r == n % 16
    IN Word([i \in 1..Len(x) |->
                 ((Limb(x, i - q) % 2^(16 - r)) * 2^r)
                 + (Limb(x, i - q - 1) \div 2^(16 - r))], Len(x))

UShr(x, n) ==
    LET q == n \div 16
        r == n % 16
    IN Word([i \in 1..Len(x) |->
                 (Limb(x, i + q) \div 2^r)
                 + ((Limb(x, i + q + 1) % 2^r) * 2^(16 - r))], Len(x))

RECURSIVE BitAnd(_, _)
BitAnd(a, b) ==
    IF a = 0 \/ b = 0 THEN 0
    ELSE (a % 2) * (b % 2) + 2 * BitAnd(a \div 2, b \div 2)

RECURSIVE BitOr(_, _)
BitOr(a, b) ==
    IF a = 0 THEN b
    ELSE IF b = 0 THEN a
    ELSE (IF a % 2 = 1 \/ b % 2 = 1 THEN 1 ELSE 0) + 2 * BitOr(a \div 2, b \div 2)

UAnd(x, y) == Word([i \in 1..Len(x) |-> BitAnd(x[i], y[i])], Len(x))
UOr(x, y) == Word([i \in 1..Len(x) |-> BitOr(x[i], y[i])], Len(x))

\* The word with the n low bits set (n less than the width): 2^n - 1.
UMask(n, w) == USub(UShl(UInt(1, w), n), UInt(1, w))

RECURSIVE UMulSmallFrom(_, _, _, _)
UMulSmallFrom(x, m, i, c) ==
    IF i > Len(x) THEN <<>>
    ELSE LET p == x[i] * m + c
         IN <<p % Base>> \o UMulSmallFrom(x, m, i + 1, p \div Base)

\* x * m modulo the width, for 0 <= m < 2^15
UMulSmall(x, m) == UMulSmallFrom(x, m, 1, 0)

RECURSIVE UMulFrom(_, _, _)
UMulFrom(x, y, j) ==
    IF j > Len(y) THEN UZero(Len(x))
    ELSE LET part == UAdd(UMulSmall(x, y[j] % 256),
                          UShl(UMulSmall(x, y[j] \div 256), 8))
         IN UAdd(UShl(part, 16 * (j - 1)), UMulFrom(x, y, j + 1))

\* x * y modulo the width
UMul(x, y) ==
    IF y[1] < 2^15 /\ \A i \in 2..Len(y) : y[i] = 0 THEN UMulSmall(x, y[1])
    ELSE UMulFrom(x, y, 1)

RECURSIVE UDivSmallFrom(_, _, _, _)
UDivSmallFrom(x, m, i, r) ==
    IF i = 0 THEN [q |-> <<>>, r |-> r]
    ELSE LET cur == r * Base + x[i]
             rest == UDivSmallFrom(x, m, i - 1, cur % m)
         IN [q |-> Append(rest.q, cur \div m), r |-> rest.r]

\* The number of bits of x (0 for x = 0).
LimbBits(n) == CHOOSE k \in 0..16 : n < 2^k /\ (k = 0 \/ n >= 2^(k - 1))
TopLimb(x) == CHOOSE i \in 1..Len(x) : x[i] # 0 /\ \A j \in (i + 1)..Len(x) : x[j] = 0
UBits(x) == 16 * (TopLimb(x) - 1) + LimbBits(x[TopLimb(x)])

\* Quotient and remainder of x by the small number m (0 < m < 2^15).
UDivModSmall(x, m) ==
    LET d == UDivSmallFrom(x, m, Len(x), 0)
    IN [q |-> d.q, r |-> UInt(d.r, Len(x))]

\* Long division in base 2^16.  The running remainder r1 (one limb wider
\* than x, r1 < ye * 2^16) is divided by ye: the quotient limb is estimated
\* from below as qh, with the leading 14 bits yt of the divisor (ye = yt * 2^s
\* and some more), then raised until the remainder is less than the divisor.
RECURSIVE UDivFix(_, _, _)
UDivFix(q, rem, ye) ==
    IF UGe(rem, ye) THEN UDivFix(q + 1, USub(rem, ye), ye) ELSE [q |-> q, r |-> rem]

UDivStep(r1, ye, qh) ==
    UDivFix(qh,
            USub(r1, UAdd(UShl(UMulSmall(ye, qh \div 256), 8), UMulSmall(ye, qh % 256))),
            ye)

RECURSIVE UDivLimbs(_, _, _, _, _, _)
UDivLimbs(x, ye, yt, s, j, r) ==
    IF j = 0 THEN [q |-> <<>>, r |-> SubSeq(r, 1, Len(x))]
    ELSE LET r1 == <<x[j]>> \o SubSeq(r, 1, Len(r) - 1)
             st == UDivStep(r1, ye, UVal(UShr(r1, s)) \div (yt + 1))
             rest == UDivLimbs(x, ye, yt, s, j - 1, st.r)
         IN [q |-> Append(rest.q, st.q), r |-> rest.r]

\* Long division of x by y, where y has s + 14 bits.
UDivLong(x, y, s) ==
    UDivLimbs(x, Append(y, 0), UVal(UShr(y, s)), s, Len(x), UZero(Len(x) + 1))

\* Quotient and remainder of x by y (y # 0), both words of x's width.
UDivMod(x, y) ==
    IF IsSmall(x) /\ IsSmall(y)
    THEN [q |-> UInt(UVal(x) \div UVal(y), Len(x)), r |-> UInt(UVal(x) % UVal(y), Len(x))]
    ELSE IF y[1] < 2^15 /\ \A i \in 2..Len(y) : y[i] = 0
    THEN UDivModSmall(x, y[1])
    ELSE UDivLong(x, y, UBits(y) - 14)

UDiv(x, y) == UDivMod(x, y).q
UMod(x, y) == UDivMod(x, y).r

RECURSIVE UDecFrom(_, _, _, _)
UDecFrom(ds, w, i, acc) ==
    IF i > Len(ds) THEN acc
    ELSE UDecFrom(ds, w, i + 1, UAdd(UMulSmall(acc, 10), UInt(ds[i], w)))

\* The word of w limbs written in decimal digits ds (most significant first).
UDec(ds, w) == UDecFrom(ds, w, 1, UZero(w))

\* Conversions to the signed widths (two's complement wrap).
ToInt8(n) == ((n + 128) % 256) - 128
ToInt16(n) == ((n + 32768) % 65536) - 32768

\* The conversion to the exponent type E of a generic function: E is 8 for
\* int8 and 16 for int16.
ToE(n, E) == IF E = 8 THEN ToInt8(n) ELSE ToInt16(n)

----------------------------------------------------------------------------
(* Tags and format constants.                                              *)

signc_negative == -1
signc_positive == 1
signc_error == 0

kind_signaling == 0
kind_quiet == 1
kind_infinity == 2
kind_finite == 3

eMax64 == 384
eMin64 == -383
bias64 == 398
maxCoefficient64 == UDec(<<9, 9, 9, 9, 9, 9, 9, 9, 9, 9, 9, 9, 9, 9, 9, 9>>, 4)

eMax32 == 96
eMin32 == -95
bias32 == 101
maxCoefficient32 == UDec(<<9, 9, 9, 9, 9, 9, 9>>, 2)

\* What pack and Round give back: the error flag and the receiver after the call.
Failed(x) == [err |-> TRUE, x |-> x]
Stored(x) == [err |-> FALSE, x |-> x]

Unpacked(k, sign, exp, coe) == [kind |-> k, sign |-> sign, exp |-> exp, coe |-> coe]

----------------------------------------------------------------------------
(* X64 codec.                                                              *)

\* The encoding step of (x *X64).pack, reached once the inputs are validated.
encode64(x, k, sign, exp, coe) ==
    IF k = kind_finite /\ exp = eMin64 /\ UGt(coe, U64(0))
    THEN \* "subnormal": stored as a signaling NaN, no error
         Stored(IF sign = signc_negative
                THEN UOr(UShl(U64(126), 56), UShl(U64(1), 63))
                ELSE UShl(U64(126), 56))
    ELSE LET result0 == IF sign = signc_negative THEN UShl(U64(1), 63) ELSE U64(0)
         IN CASE k = kind_finite ->
                   LET biasedExp == U64(ToInt16(exp + bias64))
                   IN IF ULt(coe, UShl(U64(1), 53))
                      THEN Stored(UOr(UOr(result0,
                                          UShl(UAnd(biasedExp, U64(1023)), 53)),
                                      UAnd(coe, UMask(53, 4))))
                      ELSE Stored(UOr(UOr(UOr(UOr(result0,
                                  UShl(UAnd(UShr(biasedExp, 8), U64(3)), 61)),
                                  UShl(U64(3), 59)),
                                  UShl(UAnd(biasedExp, U64(255)), 51)),
                                  UAnd(coe, UMask(51, 4))))
              [] k = kind_infinity -> Stored(UOr(result0, UShl(U64(120), 56)))
              [] k = kind_quiet -> Stored(UOr(result0, UShl(U64(124), 56)))
              [] k = kind_signaling -> Stored(UOr(result0, UShl(U64(126), 56)))
              [] OTHER -> Failed(x)

\* pack64 without the check of the coefficient against the maximum.
pack64_unchecked(x, k, sign, exp, coe) ==
    IF sign # signc_negative /\ sign # signc_positive THEN Failed(x)
    ELSE IF (exp > eMax64 \/ exp < eMin64) /\ k = kind_finite THEN Failed(x)
    ELSE encode64(x, k, sign, exp, coe)

\* (x *X64).pack(k, sign, exp, coe); x is the receiver before the call.
pack64(x, k, sign, exp, coe) ==
    IF sign # signc_negative /\ sign # signc_positive THEN Failed(x)
    ELSE IF UGt(coe, maxCoefficient64) /\ k = kind_finite THEN Failed(x)
    ELSE IF (exp > eMax64 \/ exp < eMin64) /\ k = kind_finite THEN Failed(x)
    ELSE encode64(x, k, sign, exp, coe)

\* (x *X64).unpack() on a non-nil receiver (the error is always nil).
unpack64(x) ==
    LET sign == IF UAnd(x, UShl(U64(1), 63)) # U64(0)
                THEN signc_negative ELSE signc_positive
        g0g4 == UVal(UAnd(UShr(x, 58), U64(31)))
        g0g1 == UVal(UAnd(UShr(x, 61), U64(3)))
    IN IF g0g4 = 30 THEN Unpacked(kind_infinity, sign, 0, U64(0))
       ELSE IF g0g4 = 31
       THEN IF UVal(UAnd(UShr(x, 57), U64(1))) = 1
            THEN Unpacked(kind_signaling, sign, 0, U64(0))
            ELSE Unpacked(kind_quiet, sign, 0, U64(0))
       ELSE IF g0g1 = 3
       THEN LET encodedExp ==
                    BitOr(ToInt16(UVal(UShl(UAnd(UShr(x, 61), U64(3)), 8))),
                          ToInt16(UVal(UAnd(UShr(x, 51), U64(255)))))
            IN Unpacked(kind_finite, sign, ToInt16(encodedExp - bias64),
                        UAnd(x, UMask(51, 4)))
       ELSE LET encodedExp == ToInt16(UVal(UAnd(UShr(x, 53), U64(1023))))
            IN Unpacked(kind_finite, sign, ToInt16(encodedExp - bias64),
                        UAnd(x, UMask(53, 4)))

\* (x *X64).isZero(): a finite value with the coefficient 0, of either sign
isZero64_positiveOnly(x) ==
    unpack64(x).kind = kind_finite /\ unpack64(x).coe = U64(0)
        /\ unpack64(x).sign = signc_positive
isZero64(x) ==
    unpack64(x).kind = kind_finite /\ unpack64(x).coe = U64(0)

----------------------------------------------------------------------------
(* X32 codec.                                                              *)

\* The encoding step of (x *X32).pack, reached once the inputs are validated.
encode32(x, k, sign, exp, coe) ==
    IF k = kind_finite /\ exp = eMin32 /\ UGt(coe, U32(0))
    THEN Stored(IF sign = signc_negative
                THEN UOr(UShl(U32(126), 24), UShl(U32(1), 31))
                ELSE UShl(U32(126), 24))
    ELSE LET result0 == IF sign = signc_negative THEN UShl(U32(1), 31) ELSE U32(0)
         IN CASE k = kind_finite ->
                   LET biasedExp == U32(ToInt16(ToInt16(exp) + bias32))
                   IN IF ULt(coe, UShl(U32(1), 20))
                      THEN Stored(UOr(UOr(result0,
                                          UShl(UAnd(biasedExp, U32(255)), 23)),
                                      UAnd(coe, UMask(20, 2))))
                      ELSE Stored(UOr(UOr(UOr(UOr(result0,
                                  UShl(UAnd(UShr(biasedExp, 6), U32(3)), 29)),
                                  UShl(U32(3), 27)),
                                  UShl(UAnd(biasedExp, U32(63)), 21)),
                                  UAnd(coe, UMask(21, 2))))
              [] k = kind_infinity -> Stored(UOr(result0, UShl(U32(120), 24)))
              [] k = kind_quiet -> Stored(UOr(result0, UShl(U32(124), 24)))
              [] k = kind_signaling -> Stored(UOr(result0, UShl(U32(126), 24)))
              [] OTHER -> Failed(x)

\* (x *X32).pack(k, sign, exp, coe); x is the receiver before the call.
pack32(x, k, sign, exp, coe) ==
    IF sign # signc_negative /\ sign # signc_positive THEN Failed(x)
    ELSE IF UGt(coe, maxCoefficient32) /\ k = kind_finite THEN Failed(x)
    ELSE IF (exp > eMax32 \/ exp < eMin32) /\ k = kind_finite THEN Failed(x)
    ELSE encode32(x, k, sign, exp, coe)

\* (x *X32).unpack() on a non-nil receiver (the error is always nil).
unpack32(x) ==
    LET sign == IF UAnd(x, UShl(U32(1), 31)) # U32(0)
                THEN signc_negative ELSE signc_positive
        g0g4 == UVal(UAnd(UShr(x, 26), U32(31)))
        g0g1 == UVal(UAnd(UShr(x, 29), U32(3)))
    IN IF g0g4 = 30 THEN Unpacked(kind_infinity, sign, 0, U32(0))
       ELSE IF g0g4 = 31
       THEN IF UVal(UAnd(UShr(x, 25), U32(1))) = 1
            THEN Unpacked(kind_signaling, sign, 0, U32(0))
            ELSE Unpacked(kind_quiet, sign, 0, U32(0))
       ELSE IF g0g1 = 3
       THEN LET encodedExp ==
                    BitOr(ToInt16(UVal(UShl(UAnd(UShr(x, 29), U32(3)), 6))),
                          ToInt16(UVal(UAnd(UShr(x, 21), U32(63)))))
            IN Unpacked(kind_finite, sign, ToInt8(ToInt16(encodedExp - bias32)),
                        UAnd(x, UMask(21, 2)))
       ELSE LET encodedExp == ToInt16(UVal(UAnd(UShr(x, 23), U32(255))))
            IN Unpacked(kind_finite, sign, ToInt8(ToInt16(encodedExp - bias32)),
                        UAnd(x, UMask(20, 2)))


\* (x *X32).isZero()
isZero32(x) ==
    unpack32(x).kind = kind_finite /\ unpack32(x).coe = U32(0)

----------------------------------------------------------------------------
(* Rounding engine.                                                        *)

RoundTiesToEven == 0
RoundTiesToAway == 1
RoundTowardPositive == 2
RoundTowardNegative == 3
RoundTowardZero == 4

\* countDigits: the loop "for n > 0 { n /= 10; count++ }", 1 for n = 0.
RECURSIVE countDigitsFrom(_, _)
countDigitsFrom(n, count) ==
    IF n = UZero(Len(n)) THEN count
    ELSE countDigitsFrom(UDivModSmall(n, 10).q, count + 1)

countDigits(n) == IF n = UZero(Len(n)) THEN 1 ELSE countDigitsFrom(n, 0)

\* The loop "for i := 1; i <= digitsToRemove; i++ { divisor *= powerOfTen }",
\* in the coefficient's width.
RECURSIVE divisorLoop(_, _, _)
divisorLoop(divisor, i, digitsToRemove) ==
    IF i > digitsToRemove THEN divisor
    ELSE divisorLoop(UMulSmall(divisor, 10), i + 1, digitsToRemove)

\* roundsUp with the tie of RoundTiesToEven resolved the wrong way: the
\* quotient is incremented when it is even.
roundsUp_tieToOdd(mode, quotient, remainder, halfDivisor, sign) ==
    CASE mode = RoundTiesToEven ->
            IF remainder = halfDivisor
            THEN UDivModSmall(quotient, 2).r = UInt(0, Len(quotient))
            ELSE UGt(remainder, halfDivisor)
      [] mode = RoundTiesToAway -> UGe(remainder, halfDivisor)
      [] mode = RoundTowardPositive ->
            sign = signc_positive /\ UGt(remainder, UZero(Len(remainder)))
      [] mode = RoundTowardNegative ->
            sign = signc_negative /\ UGt(remainder, UZero(Len(remainder)))
      [] OTHER -> FALSE

\* Whether Apply increments the quotient.
roundsUp(mode, quotient, remainder, halfDivisor, sign) ==
    CASE mode = RoundTiesToEven ->
            IF remainder = halfDivisor
            THEN UDivModSmall(quotient, 2).r = UInt(1, Len(quotient))
            ELSE UGt(remainder, halfDivisor)
      [] mode = RoundTiesToAway -> UGe(remainder, halfDivisor)
      [] mode = RoundTowardPositive ->
            sign = signc_positive /\ UGt(remainder, UZero(Len(remainder)))
      [] mode = RoundTowardNegative ->
            sign = signc_negative /\ UGt(remainder, UZero(Len(remainder)))
      [] OTHER -> FALSE

\* Apply(mode, coef, exp, precision, sign): the rounded coefficient and the
\* number of digits removed.  X64.Round calls it under the name apply.
Apply(mode, coef, exp, precision, sign) ==
    LET w == Len(coef)
        digits == countDigits(coef)
        digitsToRemove == digits - precision
        divisor == divisorLoop(UInt(1, w), 1, digitsToRemove)
        halfDivisor == UDivModSmall(divisor, 2).q
        quotient == UDiv(coef, divisor)
        remainder == UMod(coef, divisor)
    IN IF coef = UZero(w) THEN [coe |-> UZero(w), removed |-> 0]
       ELSE IF digits <= precision THEN [coe |-> coef, removed |-> 0]
       ELSE IF digitsToRemove = 0 THEN [coe |-> coef, removed |-> 0]
       ELSE [coe |-> IF roundsUp(mode, quotient, remainder, halfDivisor, sign)
                     THEN UAdd(quotient, UInt(1, w)) ELSE quotient,
             removed |-> digitsToRemove]

\* The loop of Round: "for exp < eMin && newCoe%10 == 0 { newCoe /= 10; exp++ }".
RECURSIVE shiftRight(_, _, _)
shiftRight(newCoe, exp, eMin) ==
    IF exp < eMin /\ UDivModSmall(newCoe, 10).r = UZero(Len(newCoe))
    THEN shiftRight(UDivModSmall(newCoe, 10).q, exp + 1, eMin)
    ELSE [coe |-> newCoe, exp |-> exp]

\* The rest of (x *X64).Round once the coefficient is rounded: u is the
\* unpacked receiver, a what Apply returned.  The exponent is adjusted, the
\* out-of-range cases are handled and the result is packed.
Round64From(x, u, a) ==
    LET exp1 == IF a.removed > 0 THEN ToInt16(u.exp + ToInt16(a.removed)) ELSE u.exp
        sh == IF a.coe = U64(0) THEN [coe |-> a.coe, exp |-> 0]
              ELSE IF UDivModSmall(a.coe, 10).r = U64(0)
              THEN shiftRight(a.coe, exp1, eMin64)
              ELSE [coe |-> a.coe, exp |-> exp1]
    IN IF exp1 < eMin64
       THEN IF sh.exp < eMin64
            THEN IF sh.coe = U64(0) THEN pack64(x, kind_finite, u.sign, 0, U64(0))
                 ELSE Failed(x)
            ELSE pack64(x, u.kind, u.sign, sh.exp, sh.coe)
       ELSE IF exp1 > eMax64 THEN pack64(x, kind_infinity, u.sign, 0, U64(0))
       ELSE pack64(x, u.kind, u.sign, exp1, a.coe)

\* (x *X64).Round(mode, prec): the error flag and the receiver after the call.
Round64(x, mode, prec) ==
    LET u == unpack64(x)
    IN IF u.kind # kind_finite THEN Stored(x)
       ELSE IF countDigits(u.coe) <= prec THEN Stored(x)
       ELSE Round64From(x, u, Apply(mode, u.coe, u.exp, prec, u.sign))

\* The rest of (x *X32).Round once the coefficient is rounded: u is the
\* unpacked receiver, a what Apply returned.  The exponent is adjusted, the
\* out-of-range cases are handled and the result is packed.
Round32From(x, u, a) ==
    LET exp1 == IF a.removed > 0 THEN ToInt8(u.exp + ToInt8(a.removed)) ELSE u.exp
        sh == IF a.coe = U32(0) THEN [coe |-> a.coe, exp |-> 0]
              ELSE IF UDivModSmall(a.coe, 10).r = U32(0)
              THEN shiftRight(a.coe, exp1, eMin32)
              ELSE [coe |-> a.coe, exp |-> exp1]
    IN IF exp1 < eMin32
       THEN IF sh.exp < eMin32
            THEN IF sh.coe = U32(0) THEN pack32(x, kind_finite, u.sign, 0, U32(0))
                 ELSE Failed(x)
            ELSE pack32(x, u.kind, u.sign, sh.exp, sh.coe)
       ELSE IF exp1 > eMax32 THEN pack32(x, kind_infinity, u.sign, 0, U32(0))
       ELSE pack32(x, u.kind, u.sign, exp1, a.coe)

\* (x *X32).Round(mode, precision): the error flag and the receiver after the call.
Round32(x, mode, precision) ==
    LET u == unpack32(x)
    IN IF u.kind # kind_finite THEN Stored(x)
       ELSE IF countDigits(u.coe) <= precision THEN Stored(x)
       ELSE Round32From(x, u, Apply(mode, u.coe, u.exp, precision, u.sign))

----------------------------------------------------------------------------
(* Signals, precision and the context record.                              *)

SignalOverflow == 1
SignalUnderflow == 2
SignalDivisionByZero == 4
SignalDivisionImpossible == 8
SignalInexact == 16
SignalRounding == 32
SignalInvalidOperation == 64
sig_conversionSyntax == 128
SignalConversionSyntax_bitOnly == sig_conversionSyntax
SignalConversionSyntax == BitOr(sig_conversionSyntax, SignalInvalidOperation)

BasicTraps == BitOr(BitOr(SignalInvalidOperation, SignalOverflow), SignalUnderflow)

\* The tables of Signal.Debug and Signal.String, in their order.
debugFlags ==
    << [symbol |-> "o", flag |-> SignalOverflow],
       [symbol |-> "u", flag |-> SignalUnderflow],
       [symbol |-> "0", flag |-> SignalDivisionByZero],
       [symbol |-> "P", flag |-> SignalDivisionImpossible],
       [symbol |-> "i", flag |-> SignalInexact],
       [symbol |-> "r", flag |-> SignalRounding],
       [symbol |-> "X", flag |-> SignalInvalidOperation],
       [symbol |-> "c", flag |-> SignalConversionSyntax] >>

stringFlags ==
    << [name |-> "SignalOverflow", flag |-> SignalOverflow],
       [name |-> "SignalUnderflow", flag |-> SignalUnderflow],
       [name |-> "SignalDivisionByZero", flag |-> SignalDivisionByZero],
       [name |-> "SignalDivisionImpossible", flag |-> SignalDivisionImpossible],
       [name |-> "SignalInexact", flag |-> SignalInexact],
       [name |-> "SignalRounding", flag |-> SignalRounding],
       [name |-> "SignalInvalidOperation", flag |-> SignalInvalidOperation],
       [name |-> "SignalConversionSyntax", flag |-> SignalConversionSyntax] >>

\* The loop of Debug and of String: the entries f of the table, from the
\* i-th on, with s&f.flag != 0.
RECURSIVE Selected(_, _, _)
Selected(flags, s, i) ==
    IF i > Len(flags) THEN <<>>
    ELSE (IF BitAnd(s, flags[i].flag) # 0 THEN <<flags[i]>> ELSE <<>>)
            \o Selected(flags, s, i + 1)

\* (s Signal).Debug(): the symbols of the selected entries, one character
\* each, or "*" when there is none.
Signal_Debug(s) ==
    LET signals == Selected(debugFlags, s, 1)
    IN IF Len(signals) = 0 THEN <<"*">>
       ELSE [i \in 1..Len(signals) |-> signals[i].symbol]

\* (s Signal).String(): strings.Join(signals, "|"), as the sequence of the
\* names and of the separators between them.
Signal_String(s) ==
    LET signals == Selected(stringFlags, s, 1)
    IN [i \in 1..(2 * Len(signals) - 1) |->
           IF i % 2 = 1 THEN signals[(i + 1) \div 2].name ELSE "|"]

PrecisionMinimum == 3
PrecisionDefault32 == 5
PrecisionMaximum32 == 7
PrecisionDefault64 == 9
PrecisionMaximum64 == 16

DefaultLocale == [decimals |-> <<".">>, thousands |-> <<",", "_">>]

\* newContext: [context, err].  A precision outside PrecisionMinimum..maxP
\* and a rounding mode outside DefaultRoundingMode..MaxRoundingMode (the
\* first and the last mode) give the zero context with an error; otherwise
\* the context after construction (signals start clear) with err "nil".
newContext(p, r, traps, l, maxP) ==
    LET zero == [precision |-> 0, rounding |-> 0, traps |-> 0, signals |-> 0,
                 locale |-> [decimals |-> <<>>, thousands |-> <<>>]]
    IN IF p < PrecisionMinimum \/ p > maxP
       THEN [context |-> zero, err |-> "ErrUnsupportedPrecision"]
       ELSE IF r < RoundTiesToEven \/ r > RoundTowardZero
       THEN [context |-> zero, err |-> "ErrUnknownRounding"]
       ELSE [context |-> [precision |-> p, rounding |-> r, traps |-> traps,
                          signals |-> 0, locale |-> l],
             err |-> "nil"]

\* newSpecial64 / newSpecial32: a NaN or an Infinity of the given sign.  Any
\* other kind, and an error of pack (a sign that is neither +1 nor -1), end
\* in a panic: nothing is returned, written "panic" here.
newSpecial64(sign, k) ==
    IF k \in {kind_signaling, kind_quiet, kind_infinity}
    THEN LET pk == pack64(U64(0), k, sign, 0, U64(0))
         IN IF pk.err THEN "panic" ELSE pk.x
    ELSE "panic"

newSpecial32(sign, k) ==
    IF k \in {kind_signaling, kind_quiet, kind_infinity}
    THEN LET pk == pack32(U32(0), k, sign, 0, U32(0))
         IN IF pk.err THEN "panic" ELSE pk.x
    ELSE "panic"

----------------------------------------------------------------------------
(* Parser.  A string is a sequence of one-character strings; a character   *)
(* that cannot be written in a string here is named by its code point, as  *)
(* in "U+000B".  The letters with a lower-case form are those of Unicode   *)
(* 15, each with its simple lower-case mapping.                            *)

UpperCase == <<"A", "B", "C", "D", "E", "F", "G", "H", "I", "J", "K",
               "L", "M", "N", "O", "P", "Q", "R", "S", "T", "U", "V",
               "W", "X", "Y", "Z", "U+00C0", "U+00C1", "U+00C2",
               "U+00C3", "U+00C4", "U+00C5", "U+00C6", "U+00C7",
               "U+00C8", "U+00C9", "U+00CA", "U+00CB", "U+00CC",
               "U+00CD", "U+00CE", "U+00CF", "U+00D0", "U+00D1",
               "U+00D2", "U+00D3", "U+00D4", "U+00D5", "U+00D6",
               "U+00D8", "U+00D9", "U+00DA", "U+00DB", "U+00DC",
               "U+00DD", "U+00DE", "U+0100", "U+0102", "U+0104",
               "U+0106", "U+0108", "U+010A", "U+010C", "U+010E",
               "U+0110", "U+0112", "U+0114", "U+0116", "U+0118",
               "U+011A", "U+011C", "U+011E", "U+0120", "U+0122",
               "U+0124", "U+0126", "U+0128", "U+012A", "U+012C",
               "U+012E", "U+0130", "U+0132", "U+0134", "U+0136",
               "U+0139", "U+013B", "U+013D", "U+013F", "U+0141",
               "U+0143", "U+0145", "U+0147", "U+014A", "U+014C",
               "U+014E", "U+0150", "U+0152", "U+0154", "U+0156",
               "U+0158", "U+015A", "U+015C", "U+015E", "U+0160",
               "U+0162", "U+0164", "U+0166", "U+0168", "U+016A",
               "U+016C", "U+016E", "U+0170", "U+0172", "U+0174",
               "U+0176", "U+0178", "U+0179", "U+017B", "U+017D",
               "U+0181", "U+0182", "U+0184", "U+0186", "U+0187",
               "U+0189", "U+018A", "U+018B", "U+018E", "U+018F",
               "U+0190", "U+0191", "U+0193", "U+0194", "U+0196",
               "U+0197", "U+0198", "U+019C", "U+019D", "U+019F",
               "U+01A0", "U+01A2", "U+01A4", "U+01A6", "U+01A7",
               "U+01A9", "U+01AC", "U+01AE", "U+01AF", "U+01B1",
               "U+01B2", "U+01B3", "U+01B5", "U+01B7", "U+01B8",
               "U+01BC", "U+01C4", "U+01C5", "U+01C7", "U+01C8",
               "U+01CA", "U+01CB", "U+01CD", "U+01CF", "U+01D1",
               "U+01D3", "U+01D5", "U+01D7", "U+01D9", "U+01DB",
               "U+01DE", "U+01E0", "U+01E2", "U+01E4", "U+01E6",
               "U+01E8", "U+01EA", "U+01EC", "U+01EE", "U+01F1",
               "U+01F2", "U+01F4", "U+01F6", "U+01F7", "U+01F8",
               "U+01FA", "U+01FC", "U+01FE", "U+0200", "U+0202",
               "U+0204", "U+0206", "U+0208", "U+020A", "U+020C",
               "U+020E", "U+0210", "U+0212", "U+0214", "U+0216",
               "U+0218", "U+021A", "U+021C", "U+021E", "U+0220",
               "U+0222", "U+0224", "U+0226", "U+0228", "U+022A",
               "U+022C", "U+022E", "U+0230", "U+0232", "U+023A",
               "U+023B", "U+023D", "U+023E", "U+0241", "U+0243",
               "U+0244", "U+0245", "U+0246", "U+0248", "U+024A",
               "U+024C", "U+024E", "U+0370", "U+0372", "U+0376",
               "U+037F", "U+0386", "U+0388", "U+0389", "U+038A",
               "U+038C", "U+038E", "U+038F", "U+0391", "U+0392",
               "U+0393", "U+0394", "U+0395", "U+0396", "U+0397",
               "U+0398", "U+0399", "U+039A", "U+039B", "U+039C",
               "U+039D", "U+039E", "U+039F", "U+03A0", "U+03A1",
               "U+03A3", "U+03A4", "U+03A5", "U+03A6", "U+03A7",
               "U+03A8", "U+03A9", "U+03AA", "U+03AB", "U+03CF",
               "U+03D8", "U+03DA", "U+03DC", "U+03DE", "U+03E0",
               "U+03E2", "U+03E4", "U+03E6", "U+03E8", "U+03EA",
               "U+03EC", "U+03EE", "U+03F4", "U+03F7", "U+03F9",
               "U+03FA", "U+03FD", "U+03FE", "U+03FF", "U+0400",
               "U+0401", "U+0402", "U+0403", "U+0404", "U+0405",
               "U+0406", "U+0407", "U+0408", "U+0409", "U+040A",
               "U+040B", "U+040C", "U+040D", "U+040E", "U+040F",
               "U+0410", "U+0411", "U+0412", "U+0413", "U+0414",
               "U+0415", "U+0416", "U+0417", "U+0418", "U+0419",
               "U+041A", "U+041B", "U+041C", "U+041D", "U+041E",
               "U+041F", "U+0420", "U+0421", "U+0422", "U+0423",
               "U+0424", "U+0425", "U+0426", "U+0427", "U+0428",
               "U+0429", "U+042A", "U+042B", "U+042C", "U+042D",
               "U+042E", "U+042F", "U+0460", "U+0462", "U+0464",
               "U+0466", "U+0468", "U+046A", "U+046C", "U+046E",
               "U+0470", "U+0472", "U+0474", "U+0476", "U+0478",
               "U+047A", "U+047C", "U+047E", "U+0480", "U+048A",
               "U+048C", "U+048E", "U+0490", "U+0492", "U+0494",
               "U+0496", "U+0498", "U+049A", "U+049C", "U+049E",
               "U+04A0", "U+04A2", "U+04A4", "U+04A6", "U+04A8",
               "U+04AA", "U+04AC", "U+04AE", "U+04B0", "U+04B2",
               "U+04B4", "U+04B6", "U+04B8", "U+04BA", "U+04BC",
               "U+04BE", "U+04C0", "U+04C1", "U+04C3", "U+04C5",
               "U+04C7", "U+04C9", "U+04CB", "U+04CD", "U+04D0",
               "U+04D2", "U+04D4", "U+04D6", "U+04D8", "U+04DA",
               "U+04DC", "U+04DE", "U+04E0", "U+04E2", "U+04E4",
               "U+04E6", "U+04E8", "U+04EA", "U+04EC", "U+04EE",
               "U+04F0", "U+04F2", "U+04F4", "U+04F6", "U+04F8",
               "U+04FA", "U+04FC", "U+04FE", "U+0500", "U+0502",
               "U+0504", "U+0506", "U+0508", "U+050A", "U+050C",
               "U+050E", "U+0510", "U+0512", "U+0514", "U+0516",
               "U+0518", "U+051A", "U+051C", "U+051E", "U+0520",
               "U+0522", "U+0524", "U+0526", "U+0528", "U+052A",
               "U+052C", "U+052E", "U+0531", "U+0532", "U+0533",
               "U+0534", "U+0535", "U+0536", "U+0537", "U+0538",
               "U+0539", "U+053A", "U+053B", "U+053C", "U+053D",
               "U+053E", "U+053F", "U+0540", "U+0541", "U+0542",
               "U+0543", "U+0544", "U+0545", "U+0546", "U+0547",
               "U+0548", "U+0549", "U+054A", "U+054B", "U+054C",
               "U+054D", "U+054E", "U+054F", "U+0550", "U+0551",
               "U+0552", "U+0553", "U+0554", "U+0555", "U+0556",
               "U+10A0", "U+10A1", "U+10A2", "U+10A3", "U+10A4",
               "U+10A5", "U+10A6", "U+10A7", "U+10A8", "U+10A9",
               "U+10AA", "U+10AB", "U+10AC", "U+10AD", "U+10AE",
               "U+10AF", "U+10B0", "U+10B1", "U+10B2", "U+10B3",
               "U+10B4", "U+10B5", "U+10B6", "U+10B7", "U+10B8",
               "U+10B9", "U+10BA", "U+10BB", "U+10BC", "U+10BD",
               "U+10BE", "U+10BF", "U+10C0", "U+10C1", "U+10C2",
               "U+10C3", "U+10C4", "U+10C5", "U+10C7", "U+10CD",
               "U+13A0", "U+13A1", "U+13A2", "U+13A3", "U+13A4",
               "U+13A5", "U+13A6", "U+13A7", "U+13A8", "U+13A9",
               "U+13AA", "U+13AB", "U+13AC", "U+13AD", "U+13AE",
               "U+13AF", "U+13B0", "U+13B1", "U+13B2", "U+13B3",
               "U+13B4", "U+13B5", "U+13B6", "U+13B7", "U+13B8",
               "U+13B9", "U+13BA", "U+13BB", "U+13BC", "U+13BD",
               "U+13BE", "U+13BF", "U+13C0", "U+13C1", "U+13C2",
               "U+13C3", "U+13C4", "U+13C5", "U+13C6", "U+13C7",
               "U+13C8", "U+13C9", "U+13CA", "U+13CB", "U+13CC",
               "U+13CD", "U+13CE", "U+13CF", "U+13D0", "U+13D1",
               "U+13D2", "U+13D3", "U+13D4", "U+13D5", "U+13D6",
               "U+13D7", "U+13D8", "U+13D9", "U+13DA", "U+13DB",
               "U+13DC", "U+13DD", "U+13DE", "U+13DF", "U+13E0",
               "U+13E1", "U+13E2", "U+13E3", "U+13E4", "U+13E5",
               "U+13E6", "U+13E7", "U+13E8", "U+13E9", "U+13EA",
               "U+13EB", "U+13EC", "U+13ED", "U+13EE", "U+13EF",
               "U+13F0", "U+13F1", "U+13F2", "U+13F3", "U+13F4",
               "U+13F5", "U+1C90", "U+1C91", "U+1C92", "U+1C93",
               "U+1C94", "U+1C95", "U+1C96", "U+1C97", "U+1C98",
               "U+1C99", "U+1C9A", "U+1C9B", "U+1C9C", "U+1C9D",
               "U+1C9E", "U+1C9F", "U+1CA0", "U+1CA1", "U+1CA2",
               "U+1CA3", "U+1CA4", "U+1CA5", "U+1CA6", "U+1CA7",
               "U+1CA8", "U+1CA9", "U+1CAA", "U+1CAB", "U+1CAC",
               "U+1CAD", "U+1CAE", "U+1CAF", "U+1CB0", "U+1CB1",
               "U+1CB2", "U+1CB3", "U+1CB4", "U+1CB5", "U+1CB6",
               "U+1CB7", "U+1CB8", "U+1CB9", "U+1CBA", "U+1CBD",
               "U+1CBE", "U+1CBF", "U+1E00", "U+1E02", "U+1E04",
               "U+1E06", "U+1E08", "U+1E0A", "U+1E0C", "U+1E0E",
               "U+1E10", "U+1E12", "U+1E14", "U+1E16", "U+1E18",
               "U+1E1A", "U+1E1C", "U+1E1E", "U+1E20", "U+1E22",
               "U+1E24", "U+1E26", "U+1E28", "U+1E2A", "U+1E2C",
               "U+1E2E", "U+1E30", "U+1E32", "U+1E34", "U+1E36",
               "U+1E38", "U+1E3A", "U+1E3C", "U+1E3E", "U+1E40",
               "U+1E42", "U+1E44", "U+1E46", "U+1E48", "U+1E4A",
               "U+1E4C", "U+1E4E", "U+1E50", "U+1E52", "U+1E54",
               "U+1E56", "U+1E58", "U+1E5A", "U+1E5C", "U+1E5E",
               "U+1E60", "U+1E62", "U+1E64", "U+1E66", "U+1E68",
               "U+1E6A", "U+1E6C", "U+1E6E", "U+1E70", "U+1E72",
               "U+1E74", "U+1E76", "U+1E78", "U+1E7A", "U+1E7C",
               "U+1E7E", "U+1E80", "U+1E82", "U+1E84", "U+1E86",
               "U+1E88", "U+1E8A", "U+1E8C", "U+1E8E", "U+1E90",
               "U+1E92", "U+1E94", "U+1E9E", "U+1EA0", "U+1EA2",
               "U+1EA4", "U+1EA6", "U+1EA8", "U+1EAA", "U+1EAC",
               "U+1EAE", "U+1EB0", "U+1EB2", "U+1EB4", "U+1EB6",
               "U+1EB8", "U+1EBA", "U+1EBC", "U+1EBE", "U+1EC0",
               "U+1EC2", "U+1EC4", "U+1EC6", "U+1EC8", "U+1ECA",
               "U+1ECC", "U+1ECE", "U+1ED0", "U+1ED2", "U+1ED4",
               "U+1ED6", "U+1ED8", "U+1EDA", "U+1EDC", "U+1EDE",
               "U+1EE0", "U+1EE2", "U+1EE4", "U+1EE6", "U+1EE8",
               "U+1EEA", "U+1EEC", "U+1EEE", "U+1EF0", "U+1EF2",
               "U+1EF4", "U+1EF6", "U+1EF8", "U+1EFA", "U+1EFC",
               "U+1EFE", "U+1F08", "U+1F09", "U+1F0A", "U+1F0B",
               "U+1F0C", "U+1F0D", "U+1F0E", "U+1F0F", "U+1F18",
               "U+1F19", "U+1F1A", "U+1F1B", "U+1F1C", "U+1F1D",
               "U+1F28", "U+1F29", "U+1F2A", "U+1F2B", "U+1F2C",
               "U+1F2D", "U+1F2E", "U+1F2F", "U+1F38", "U+1F39",
               "U+1F3A", "U+1F3B", "U+1F3C", "U+1F3D", "U+1F3E",
               "U+1F3F", "U+1F48", "U+1F49", "U+1F4A", "U+1F4B",
               "U+1F4C", "U+1F4D", "U+1F59", "U+1F5B", "U+1F5D",
               "U+1F5F", "U+1F68", "U+1F69", "U+1F6A", "U+1F6B",
               "U+1F6C", "U+1F6D", "U+1F6E", "U+1F6F", "U+1F88",
               "U+1F89", "U+1F8A", "U+1F8B", "U+1F8C", "U+1F8D",
               "U+1F8E", "U+1F8F", "U+1F98", "U+1F99", "U+1F9A",
               "U+1F9B", "U+1F9C", "U+1F9D", "U+1F9E", "U+1F9F",
               "U+1FA8", "U+1FA9", "U+1FAA", "U+1FAB", "U+1FAC",
               "U+1FAD", "U+1FAE", "U+1FAF", "U+1FB8", "U+1FB9",
               "U+1FBA", "U+1FBB", "U+1FBC", "U+1FC8", "U+1FC9",
               "U+1FCA", "U+1FCB", "U+1FCC", "U+1FD8", "U+1FD9",
               "U+1FDA", "U+1FDB", "U+1FE8", "U+1FE9", "U+1FEA",
               "U+1FEB", "U+1FEC", "U+1FF8", "U+1FF9", "U+1FFA",
               "U+1FFB", "U+1FFC", "U+2126", "U+212A", "U+212B",
               "U+2132", "U+2160", "U+2161", "U+2162", "U+2163",
               "U+2164", "U+2165", "U+2166", "U+2167", "U+2168",
               "U+2169", "U+216A", "U+216B", "U+216C", "U+216D",
               "U+216E", "U+216F", "U+2183", "U+24B6", "U+24B7",
               "U+24B8", "U+24B9", "U+24BA", "U+24BB", "U+24BC",
               "U+24BD", "U+24BE", "U+24BF", "U+24C0", "U+24C1",
               "U+24C2", "U+24C3", "U+24C4", "U+24C5", "U+24C6",
               "U+24C7", "U+24C8", "U+24C9", "U+24CA", "U+24CB",
               "U+24CC", "U+24CD", "U+24CE", "U+24CF", "U+2C00",
               "U+2C01", "U+2C02", "U+2C03", "U+2C04", "U+2C05",
               "U+2C06", "U+2C07", "U+2C08", "U+2C09", "U+2C0A",
               "U+2C0B", "U+2C0C", "U+2C0D", "U+2C0E", "U+2C0F",
               "U+2C10", "U+2C11", "U+2C12", "U+2C13", "U+2C14",
               "U+2C15", "U+2C16", "U+2C17", "U+2C18", "U+2C19",
               "U+2C1A", "U+2C1B", "U+2C1C", "U+2C1D", "U+2C1E",
               "U+2C1F", "U+2C20", "U+2C21", "U+2C22", "U+2C23",
               "U+2C24", "U+2C25", "U+2C26", "U+2C27", "U+2C28",
               "U+2C29", "U+2C2A", "U+2C2B", "U+2C2C", "U+2C2D",
               "U+2C2E", "U+2C2F", "U+2C60", "U+2C62", "U+2C63",
               "U+2C64", "U+2C67", "U+2C69", "U+2C6B", "U+2C6D",
               "U+2C6E", "U+2C6F", "U+2C70", "U+2C72", "U+2C75",
               "U+2C7E", "U+2C7F", "U+2C80", "U+2C82", "U+2C84",
               "U+2C86", "U+2C88", "U+2C8A", "U+2C8C", "U+2C8E",
               "U+2C90", "U+2C92", "U+2C94", "U+2C96", "U+2C98",
               "U+2C9A", "U+2C9C", "U+2C9E", "U+2CA0", "U+2CA2",
               "U+2CA4", "U+2CA6", "U+2CA8", "U+2CAA", "U+2CAC",
               "U+2CAE", "U+2CB0", "U+2CB2", "U+2CB4", "U+2CB6",
               "U+2CB8", "U+2CBA", "U+2CBC", "U+2CBE", "U+2CC0",
               "U+2CC2", "U+2CC4", "U+2CC6", "U+2CC8", "U+2CCA",
               "U+2CCC", "U+2CCE", "U+2CD0", "U+2CD2", "U+2CD4",
               "U+2CD6", "U+2CD8", "U+2CDA", "U+2CDC", "U+2CDE",
               "U+2CE0", "U+2CE2", "U+2CEB", "U+2CED", "U+2CF2",
               "U+A640", "U+A642", "U+A644", "U+A646", "U+A648",
               "U+A64A", "U+A64C", "U+A64E", "U+A650", "U+A652",
               "U+A654", "U+A656", "U+A658", "U+A65A", "U+A65C",
               "U+A65E", "U+A660", "U+A662", "U+A664", "U+A666",
               "U+A668", "U+A66A", "U+A66C", "U+A680", "U+A682",
               "U+A684", "U+A686", "U+A688", "U+A68A", "U+A68C",
               "U+A68E", "U+A690", "U+A692", "U+A694", "U+A696",
               "U+A698", "U+A69A", "U+A722", "U+A724", "U+A726",
               "U+A728", "U+A72A", "U+A72C", "U+A72E", "U+A732",
               "U+A734", "U+A736", "U+A738", "U+A73A", "U+A73C",
               "U+A73E", "U+A740", "U+A742", "U+A744", "U+A746",
               "U+A748", "U+A74A", "U+A74C", "U+A74E", "U+A750",
               "U+A752", "U+A754", "U+A756", "U+A758", "U+A75A",
               "U+A75C", "U+A75E", "U+A760", "U+A762", "U+A764",
               "U+A766", "U+A768", "U+A76A", "U+A76C", "U+A76E",
               "U+A779", "U+A77B", "U+A77D", "U+A77E", "U+A780",
               "U+A782", "U+A784", "U+A786", "U+A78B", "U+A78D",
               "U+A790", "U+A792", "U+A796", "U+A798", "U+A79A",
               "U+A79C", "U+A79E", "U+A7A0", "U+A7A2", "U+A7A4",
               "U+A7A6", "U+A7A8", "U+A7AA", "U+A7AB", "U+A7AC",
               "U+A7AD", "U+A7AE", "U+A7B0", "U+A7B1", "U+A7B2",
               "U+A7B3", "U+A7B4", "U+A7B6", "U+A7B8", "U+A7BA",
               "U+A7BC", "U+A7BE", "U+A7C0", "U+A7C2", "U+A7C4",
               "U+A7C5", "U+A7C6", "U+A7C7", "U+A7C9", "U+A7D0",
               "U+A7D6", "U+A7D8", "U+A7F5", "U+FF21", "U+FF22",
               "U+FF23", "U+FF24", "U+FF25", "U+FF26", "U+FF27",
               "U+FF28", "U+FF29", "U+FF2A", "U+FF2B", "U+FF2C",
               "U+FF2D", "U+FF2E", "U+FF2F", "U+FF30", "U+FF31",
               "U+FF32", "U+FF33", "U+FF34", "U+FF35", "U+FF36",
               "U+FF37", "U+FF38", "U+FF39", "U+FF3A", "U+10400",
               "U+10401", "U+10402", "U+10403", "U+10404", "U+10405",
               "U+10406", "U+10407", "U+10408", "U+10409", "U+1040A",
               "U+1040B", "U+1040C", "U+1040D", "U+1040E", "U+1040F",
               "U+10410", "U+10411", "U+10412", "U+10413", "U+10414",
               "U+10415", "U+10416", "U+10417", "U+10418", "U+10419",
               "U+1041A", "U+1041B", "U+1041C", "U+1041D", "U+1041E",
               "U+1041F", "U+10420", "U+10421", "U+10422", "U+10423",
               "U+10424", "U+10425", "U+10426", "U+10427", "U+104B0",
               "U+104B1", "U+104B2", "U+104B3", "U+104B4", "U+104B5",
               "U+104B6", "U+104B7", "U+104B8", "U+104B9", "U+104BA",
               "U+104BB", "U+104BC", "U+104BD", "U+104BE", "U+104BF",
               "U+104C0", "U+104C1", "U+104C2", "U+104C3", "U+104C4",
               "U+104C5", "U+104C6", "U+104C7", "U+104C8", "U+104C9",
               "U+104CA", "U+104CB", "U+104CC", "U+104CD", "U+104CE",
               "U+104CF", "U+104D0", "U+104D1", "U+104D2", "U+104D3",
               "U+10570", "U+10571", "U+10572", "U+10573", "U+10574",
               "U+10575", "U+10576", "U+10577", "U+10578", "U+10579",
               "U+1057A", "U+1057C", "U+1057D", "U+1057E", "U+1057F",
               "U+10580", "U+10581", "U+10582", "U+10583", "U+10584",
               "U+10585", "U+10586", "U+10587", "U+10588", "U+10589",
               "U+1058A", "U+1058C", "U+1058D", "U+1058E", "U+1058F",
               "U+10590", "U+10591", "U+10592", "U+10594", "U+10595",
               "U+10C80", "U+10C81", "U+10C82", "U+10C83", "U+10C84",
               "U+10C85", "U+10C86", "U+10C87", "U+10C88", "U+10C89",
               "U+10C8A", "U+10C8B", "U+10C8C", "U+10C8D", "U+10C8E",
               "U+10C8F", "U+10C90", "U+10C91", "U+10C92", "U+10C93",
               "U+10C94", "U+10C95", "U+10C96", "U+10C97", "U+10C98",
               "U+10C99", "U+10C9A", "U+10C9B", "U+10C9C", "U+10C9D",
               "U+10C9E", "U+10C9F", "U+10CA0", "U+10CA1", "U+10CA2",
               "U+10CA3", "U+10CA4", "U+10CA5", "U+10CA6", "U+10CA7",
               "U+10CA8", "U+10CA9", "U+10CAA", "U+10CAB", "U+10CAC",
               "U+10CAD", "U+10CAE", "U+10CAF", "U+10CB0", "U+10CB1",
               "U+10CB2", "U+118A0", "U+118A1", "U+118A2", "U+118A3",
               "U+118A4", "U+118A5", "U+118A6", "U+118A7", "U+118A8",
               "U+118A9", "U+118AA", "U+118AB", "U+118AC", "U+118AD",
               "U+118AE", "U+118AF", "U+118B0", "U+118B1", "U+118B2",
               "U+118B3", "U+118B4", "U+118B5", "U+118B6", "U+118B7",
               "U+118B8", "U+118B9", "U+118BA", "U+118BB", "U+118BC",
               "U+118BD", "U+118BE", "U+118BF", "U+16E40", "U+16E41",
               "U+16E42", "U+16E43", "U+16E44", "U+16E45", "U+16E46",
               "U+16E47", "U+16E48", "U+16E49", "U+16E4A", "U+16E4B",
               "U+16E4C", "U+16E4D", "U+16E4E", "U+16E4F", "U+16E50",
               "U+16E51", "U+16E52", "U+16E53", "U+16E54", "U+16E55",
               "U+16E56", "U+16E57", "U+16E58", "U+16E59", "U+16E5A",
               "U+16E5B", "U+16E5C", "U+16E5D", "U+16E5E", "U+16E5F",
               "U+1E900", "U+1E901", "U+1E902", "U+1E903", "U+1E904",
               "U+1E905", "U+1E906", "U+1E907", "U+1E908", "U+1E909",
               "U+1E90A", "U+1E90B", "U+1E90C", "U+1E90D", "U+1E90E",
               "U+1E90F", "U+1E910", "U+1E911", "U+1E912", "U+1E913",
               "U+1E914", "U+1E915", "U+1E916", "U+1E917", "U+1E918",
               "U+1E919", "U+1E91A", "U+1E91B", "U+1E91C", "U+1E91D",
               "U+1E91E", "U+1E91F", "U+1E920", "U+1E921">>

LowerCase == <<"a", "b", "c", "d", "e", "f", "g", "h", "i", "j", "k",
               "l", "m", "n", "o", "p", "q", "r", "s", "t", "u", "v",
               "w", "x", "y", "z", "U+00E0", "U+00E1", "U+00E2",
               "U+00E3", "U+00E4", "U+00E5", "U+00E6", "U+00E7",
               "U+00E8", "U+00E9", "U+00EA", "U+00EB", "U+00EC",
               "U+00ED", "U+00EE", "U+00EF", "U+00F0", "U+00F1",
               "U+00F2", "U+00F3", "U+00F4", "U+00F5", "U+00F6",
               "U+00F8", "U+00F9", "U+00FA", "U+00FB", "U+00FC",
               "U+00FD", "U+00FE", "U+0101", "U+0103", "U+0105",
               "U+0107", "U+0109", "U+010B", "U+010D", "U+010F",
               "U+0111", "U+0113", "U+0115", "U+0117", "U+0119",
               "U+011B", "U+011D", "U+011F", "U+0121", "U+0123",
               "U+0125", "U+0127", "U+0129", "U+012B", "U+012D",
               "U+012F", "i", "U+0133", "U+0135", "U+0137", "U+013A",
               "U+013C", "U+013E", "U+0140", "U+0142", "U+0144",
               "U+0146", "U+0148", "U+014B", "U+014D", "U+014F",
               "U+0151", "U+0153", "U+0155", "U+0157", "U+0159",
               "U+015B", "U+015D", "U+015F", "U+0161", "U+0163",
               "U+0165", "U+0167", "U+0169", "U+016B", "U+016D",
               "U+016F", "U+0171", "U+0173", "U+0175", "U+0177",
               "U+00FF", "U+017A", "U+017C", "U+017E", "U+0253",
               "U+0183", "U+0185", "U+0254", "U+0188", "U+0256",
               "U+0257", "U+018C", "U+01DD", "U+0259", "U+025B",
               "U+0192", "U+0260", "U+0263", "U+0269", "U+0268",
               "U+0199", "U+026F", "U+0272", "U+0275", "U+01A1",
               "U+01A3", "U+01A5", "U+0280", "U+01A8", "U+0283",
               "U+01AD", "U+0288", "U+01B0", "U+028A", "U+028B",
               "U+01B4", "U+01B6", "U+0292", "U+01B9", "U+01BD",
               "U+01C6", "U+01C6", "U+01C9", "U+01C9", "U+01CC",
               "U+01CC", "U+01CE", "U+01D0", "U+01D2", "U+01D4",
               "U+01D6", "U+01D8", "U+01DA", "U+01DC", "U+01DF",
               "U+01E1", "U+01E3", "U+01E5", "U+01E7", "U+01E9",
               "U+01EB", "U+01ED", "U+01EF", "U+01F3", "U+01F3",
               "U+01F5", "U+0195", "U+01BF", "U+01F9", "U+01FB",
               "U+01FD", "U+01FF", "U+0201", "U+0203", "U+0205",
               "U+0207", "U+0209", "U+020B", "U+020D", "U+020F",
               "U+0211", "U+0213", "U+0215", "U+0217", "U+0219",
               "U+021B", "U+021D", "U+021F", "U+019E", "U+0223",
               "U+0225", "U+0227", "U+0229", "U+022B", "U+022D",
               "U+022F", "U+0231", "U+0233", "U+2C65", "U+023C",
               "U+019A", "U+2C66", "U+0242", "U+0180", "U+0289",
               "U+028C", "U+0247", "U+0249", "U+024B", "U+024D",
               "U+024F", "U+0371", "U+0373", "U+0377", "U+03F3",
               "U+03AC", "U+03AD", "U+03AE", "U+03AF", "U+03CC",
               "U+03CD", "U+03CE", "U+03B1", "U+03B2", "U+03B3",
               "U+03B4", "U+03B5", "U+03B6", "U+03B7", "U+03B8",
               "U+03B9", "U+03BA", "U+03BB", "U+03BC", "U+03BD",
               "U+03BE", "U+03BF", "U+03C0", "U+03C1", "U+03C3",
               "U+03C4", "U+03C5", "U+03C6", "U+03C7", "U+03C8",
               "U+03C9", "U+03CA", "U+03CB", "U+03D7", "U+03D9",
               "U+03DB", "U+03DD", "U+03DF", "U+03E1", "U+03E3",
               "U+03E5", "U+03E7", "U+03E9", "U+03EB", "U+03ED",
               "U+03EF", "U+03B8", "U+03F8", "U+03F2", "U+03FB",
               "U+037B", "U+037C", "U+037D", "U+0450", "U+0451",
               "U+0452", "U+0453", "U+0454", "U+0455", "U+0456",
               "U+0457", "U+0458", "U+0459", "U+045A", "U+045B",
               "U+045C", "U+045D", "U+045E", "U+045F", "U+0430",
               "U+0431", "U+0432", "U+0433", "U+0434", "U+0435",
               "U+0436", "U+0437", "U+0438", "U+0439", "U+043A",
               "U+043B", "U+043C", "U+043D", "U+043E", "U+043F",
               "U+0440", "U+0441", "U+0442", "U+0443", "U+0444",
               "U+0445", "U+0446", "U+0447", "U+0448", "U+0449",
               "U+044A", "U+044B", "U+044C", "U+044D", "U+044E",
               "U+044F", "U+0461", "U+0463", "U+0465", "U+0467",
               "U+0469", "U+046B", "U+046D", "U+046F", "U+0471",
               "U+0473", "U+0475", "U+0477", "U+0479", "U+047B",
               "U+047D", "U+047F", "U+0481", "U+048B", "U+048D",
               "U+048F", "U+0491", "U+0493", "U+0495", "U+0497",
               "U+0499", "U+049B", "U+049D", "U+049F", "U+04A1",
               "U+04A3", "U+04A5", "U+04A7", "U+04A9", "U+04AB",
               "U+04AD", "U+04AF", "U+04B1", "U+04B3", "U+04B5",
               "U+04B7", "U+04B9", "U+04BB", "U+04BD", "U+04BF",
               "U+04CF", "U+04C2", "U+04C4", "U+04C6", "U+04C8",
               "U+04CA", "U+04CC", "U+04CE", "U+04D1", "U+04D3",
               "U+04D5", "U+04D7", "U+04D9", "U+04DB", "U+04DD",
               "U+04DF", "U+04E1", "U+04E3", "U+04E5", "U+04E7",
               "U+04E9", "U+04EB", "U+04ED", "U+04EF", "U+04F1",
               "U+04F3", "U+04F5", "U+04F7", "U+04F9", "U+04FB",
               "U+04FD", "U+04FF", "U+0501", "U+0503", "U+0505",
               "U+0507", "U+0509", "U+050B", "U+050D", "U+050F",
               "U+0511", "U+0513", "U+0515", "U+0517", "U+0519",
               "U+051B", "U+051D", "U+051F", "U+0521", "U+0523",
               "U+0525", "U+0527", "U+0529", "U+052B", "U+052D",
               "U+052F", "U+0561", "U+0562", "U+0563", "U+0564",
               "U+0565", "U+0566", "U+0567", "U+0568", "U+0569",
               "U+056A", "U+056B", "U+056C", "U+056D", "U+056E",
               "U+056F", "U+0570", "U+0571", "U+0572", "U+0573",
               "U+0574", "U+0575", "U+0576", "U+0577", "U+0578",
               "U+0579", "U+057A", "U+057B", "U+057C", "U+057D",
               "U+057E", "U+057F", "U+0580", "U+0581", "U+0582",
               "U+0583", "U+0584", "U+0585", "U+0586", "U+2D00",
               "U+2D01", "U+2D02", "U+2D03", "U+2D04", "U+2D05",
               "U+2D06", "U+2D07", "U+2D08", "U+2D09", "U+2D0A",
               "U+2D0B", "U+2D0C", "U+2D0D", "U+2D0E", "U+2D0F",
               "U+2D10", "U+2D11", "U+2D12", "U+2D13", "U+2D14",
               "U+2D15", "U+2D16", "U+2D17", "U+2D18", "U+2D19",
               "U+2D1A", "U+2D1B", "U+2D1C", "U+2D1D", "U+2D1E",
               "U+2D1F", "U+2D20", "U+2D21", "U+2D22", "U+2D23",
               "U+2D24", "U+2D25", "U+2D27", "U+2D2D", "U+AB70",
               "U+AB71", "U+AB72", "U+AB73", "U+AB74", "U+AB75",
               "U+AB76", "U+AB77", "U+AB78", "U+AB79", "U+AB7A",
               "U+AB7B", "U+AB7C", "U+AB7D", "U+AB7E", "U+AB7F",
               "U+AB80", "U+AB81", "U+AB82", "U+AB83", "U+AB84",
               "U+AB85", "U+AB86", "U+AB87", "U+AB88", "U+AB89",
               "U+AB8A", "U+AB8B", "U+AB8C", "U+AB8D", "U+AB8E",
               "U+AB8F", "U+AB90", "U+AB91", "U+AB92", "U+AB93",
               "U+AB94", "U+AB95", "U+AB96", "U+AB97", "U+AB98",
               "U+AB99", "U+AB9A", "U+AB9B", "U+AB9C", "U+AB9D",
               "U+AB9E", "U+AB9F", "U+ABA0", "U+ABA1", "U+ABA2",
               "U+ABA3", "U+ABA4", "U+ABA5", "U+ABA6", "U+ABA7",
               "U+ABA8", "U+ABA9", "U+ABAA", "U+ABAB", "U+ABAC",
               "U+ABAD", "U+ABAE", "U+ABAF", "U+ABB0", "U+ABB1",
               "U+ABB2", "U+ABB3", "U+ABB4", "U+ABB5", "U+ABB6",
               "U+ABB7", "U+ABB8", "U+ABB9", "U+ABBA", "U+ABBB",
               "U+ABBC", "U+ABBD", "U+ABBE", "U+ABBF", "U+13F8",
               "U+13F9", "U+13FA", "U+13FB", "U+13FC", "U+13FD",
               "U+10D0", "U+10D1", "U+10D2", "U+10D3", "U+10D4",
               "U+10D5", "U+10D6", "U+10D7", "U+10D8", "U+10D9",
               "U+10DA", "U+10DB", "U+10DC", "U+10DD", "U+10DE",
               "U+10DF", "U+10E0", "U+10E1", "U+10E2", "U+10E3",
               "U+10E4", "U+10E5", "U+10E6", "U+10E7", "U+10E8",
               "U+10E9", "U+10EA", "U+10EB", "U+10EC", "U+10ED",
               "U+10EE", "U+10EF", "U+10F0", "U+10F1", "U+10F2",
               "U+10F3", "U+10F4", "U+10F5", "U+10F6", "U+10F7",
               "U+10F8", "U+10F9", "U+10FA", "U+10FD", "U+10FE",
               "U+10FF", "U+1E01", "U+1E03", "U+1E05", "U+1E07",
               "U+1E09", "U+1E0B", "U+1E0D", "U+1E0F", "U+1E11",
               "U+1E13", "U+1E15", "U+1E17", "U+1E19", "U+1E1B",
               "U+1E1D", "U+1E1F", "U+1E21", "U+1E23", "U+1E25",
               "U+1E27", "U+1E29", "U+1E2B", "U+1E2D", "U+1E2F",
               "U+1E31", "U+1E33", "U+1E35", "U+1E37", "U+1E39",
               "U+1E3B", "U+1E3D", "U+1E3F", "U+1E41", "U+1E43",
               "U+1E45", "U+1E47", "U+1E49", "U+1E4B", "U+1E4D",
               "U+1E4F", "U+1E51", "U+1E53", "U+1E55", "U+1E57",
               "U+1E59", "U+1E5B", "U+1E5D", "U+1E5F", "U+1E61",
               "U+1E63", "U+1E65", "U+1E67", "U+1E69", "U+1E6B",
               "U+1E6D", "U+1E6F", "U+1E71", "U+1E73", "U+1E75",
               "U+1E77", "U+1E79", "U+1E7B", "U+1E7D", "U+1E7F",
               "U+1E81", "U+1E83", "U+1E85", "U+1E87", "U+1E89",
               "U+1E8B", "U+1E8D", "U+1E8F", "U+1E91", "U+1E93",
               "U+1E95", "U+00DF", "U+1EA1", "U+1EA3", "U+1EA5",
               "U+1EA7", "U+1EA9", "U+1EAB", "U+1EAD", "U+1EAF",
               "U+1EB1", "U+1EB3", "U+1EB5", "U+1EB7", "U+1EB9",
               "U+1EBB", "U+1EBD", "U+1EBF", "U+1EC1", "U+1EC3",
               "U+1EC5", "U+1EC7", "U+1EC9", "U+1ECB", "U+1ECD",
               "U+1ECF", "U+1ED1", "U+1ED3", "U+1ED5", "U+1ED7",
               "U+1ED9", "U+1EDB", "U+1EDD", "U+1EDF", "U+1EE1",
               "U+1EE3", "U+1EE5", "U+1EE7", "U+1EE9", "U+1EEB",
               "U+1EED", "U+1EEF", "U+1EF1", "U+1EF3", "U+1EF5",
               "U+1EF7", "U+1EF9", "U+1EFB", "U+1EFD", "U+1EFF",
               "U+1F00", "U+1F01", "U+1F02", "U+1F03", "U+1F04",
               "U+1F05", "U+1F06", "U+1F07", "U+1F10", "U+1F11",
               "U+1F12", "U+1F13", "U+1F14", "U+1F15", "U+1F20",
               "U+1F21", "U+1F22", "U+1F23", "U+1F24", "U+1F25",
               "U+1F26", "U+1F27", "U+1F30", "U+1F31", "U+1F32",
               "U+1F33", "U+1F34", "U+1F35", "U+1F36", "U+1F37",
               "U+1F40", "U+1F41", "U+1F42", "U+1F43", "U+1F44",
               "U+1F45", "U+1F51", "U+1F53", "U+1F55", "U+1F57",
               "U+1F60", "U+1F61", "U+1F62", "U+1F63", "U+1F64",
               "U+1F65", "U+1F66", "U+1F67", "U+1F80", "U+1F81",
               "U+1F82", "U+1F83", "U+1F84", "U+1F85", "U+1F86",
               "U+1F87", "U+1F90", "U+1F91", "U+1F92", "U+1F93",
               "U+1F94", "U+1F95", "U+1F96", "U+1F97", "U+1FA0",
               "U+1FA1", "U+1FA2", "U+1FA3", "U+1FA4", "U+1FA5",
               "U+1FA6", "U+1FA7", "U+1FB0", "U+1FB1", "U+1F70",
               "U+1F71", "U+1FB3", "U+1F72", "U+1F73", "U+1F74",
               "U+1F75", "U+1FC3", "U+1FD0", "U+1FD1", "U+1F76",
               "U+1F77", "U+1FE0", "U+1FE1", "U+1F7A", "U+1F7B",
               "U+1FE5", "U+1F78", "U+1F79", "U+1F7C", "U+1F7D",
               "U+1FF3", "U+03C9", "k", "U+00E5", "U+214E", "U+2170",
               "U+2171", "U+2172", "U+2173", "U+2174", "U+2175",
               "U+2176", "U+2177", "U+2178", "U+2179", "U+217A",
               "U+217B", "U+217C", "U+217D", "U+217E", "U+217F",
               "U+2184", "U+24D0", "U+24D1", "U+24D2", "U+24D3",
               "U+24D4", "U+24D5", "U+24D6", "U+24D7", "U+24D8",
               "U+24D9", "U+24DA", "U+24DB", "U+24DC", "U+24DD",
               "U+24DE", "U+24DF", "U+24E0", "U+24E1", "U+24E2",
               "U+24E3", "U+24E4", "U+24E5", "U+24E6", "U+24E7",
               "U+24E8", "U+24E9", "U+2C30", "U+2C31", "U+2C32",
               "U+2C33", "U+2C34", "U+2C35", "U+2C36", "U+2C37",
               "U+2C38", "U+2C39", "U+2C3A", "U+2C3B", "U+2C3C",
               "U+2C3D", "U+2C3E", "U+2C3F", "U+2C40", "U+2C41",
               "U+2C42", "U+2C43", "U+2C44", "U+2C45", "U+2C46",
               "U+2C47", "U+2C48", "U+2C49", "U+2C4A", "U+2C4B",
               "U+2C4C", "U+2C4D", "U+2C4E", "U+2C4F", "U+2C50",
               "U+2C51", "U+2C52", "U+2C53", "U+2C54", "U+2C55",
               "U+2C56", "U+2C57", "U+2C58", "U+2C59", "U+2C5A",
               "U+2C5B", "U+2C5C", "U+2C5D", "U+2C5E", "U+2C5F",
               "U+2C61", "U+026B", "U+1D7D", "U+027D", "U+2C68",
               "U+2C6A", "U+2C6C", "U+0251", "U+0271", "U+0250",
               "U+0252", "U+2C73", "U+2C76", "U+023F", "U+0240",
               "U+2C81", "U+2C83", "U+2C85", "U+2C87", "U+2C89",
               "U+2C8B", "U+2C8D", "U+2C8F", "U+2C91", "U+2C93",
               "U+2C95", "U+2C97", "U+2C99", "U+2C9B", "U+2C9D",
               "U+2C9F", "U+2CA1", "U+2CA3", "U+2CA5", "U+2CA7",
               "U+2CA9", "U+2CAB", "U+2CAD", "U+2CAF", "U+2CB1",
               "U+2CB3", "U+2CB5", "U+2CB7", "U+2CB9", "U+2CBB",
               "U+2CBD", "U+2CBF", "U+2CC1", "U+2CC3", "U+2CC5",
               "U+2CC7", "U+2CC9", "U+2CCB", "U+2CCD", "U+2CCF",
               "U+2CD1", "U+2CD3", "U+2CD5", "U+2CD7", "U+2CD9",
               "U+2CDB", "U+2CDD", "U+2CDF", "U+2CE1", "U+2CE3",
               "U+2CEC", "U+2CEE", "U+2CF3", "U+A641", "U+A643",
               "U+A645", "U+A647", "U+A649", "U+A64B", "U+A64D",
               "U+A64F", "U+A651", "U+A653", "U+A655", "U+A657",
               "U+A659", "U+A65B", "U+A65D", "U+A65F", "U+A661",
               "U+A663", "U+A665", "U+A667", "U+A669", "U+A66B",
               "U+A66D", "U+A681", "U+A683", "U+A685", "U+A687",
               "U+A689", "U+A68B", "U+A68D", "U+A68F", "U+A691",
               "U+A693", "U+A695", "U+A697", "U+A699", "U+A69B",
               "U+A723", "U+A725", "U+A727", "U+A729", "U+A72B",
               "U+A72D", "U+A72F", "U+A733", "U+A735", "U+A737",
               "U+A739", "U+A73B", "U+A73D", "U+A73F", "U+A741",
               "U+A743", "U+A745", "U+A747", "U+A749", "U+A74B",
               "U+A74D", "U+A74F", "U+A751", "U+A753", "U+A755",
               "U+A757", "U+A759", "U+A75B", "U+A75D", "U+A75F",
               "U+A761", "U+A763", "U+A765", "U+A767", "U+A769",
               "U+A76B", "U+A76D", "U+A76F", "U+A77A", "U+A77C",
               "U+1D79", "U+A77F", "U+A781", "U+A783", "U+A785",
               "U+A787", "U+A78C", "U+0265", "U+A791", "U+A793",
               "U+A797", "U+A799", "U+A79B", "U+A79D", "U+A79F",
               "U+A7A1", "U+A7A3", "U+A7A5", "U+A7A7", "U+A7A9",
               "U+0266", "U+025C", "U+0261", "U+026C", "U+026A",
               "U+029E", "U+0287", "U+029D", "U+AB53", "U+A7B5",
               "U+A7B7", "U+A7B9", "U+A7BB", "U+A7BD", "U+A7BF",
               "U+A7C1", "U+A7C3", "U+A794", "U+0282", "U+1D8E",
               "U+A7C8", "U+A7CA", "U+A7D1", "U+A7D7", "U+A7D9",
               "U+A7F6", "U+FF41", "U+FF42", "U+FF43", "U+FF44",
               "U+FF45", "U+FF46", "U+FF47", "U+FF48", "U+FF49",
               "U+FF4A", "U+FF4B", "U+FF4C", "U+FF4D", "U+FF4E",
               "U+FF4F", "U+FF50", "U+FF51", "U+FF52", "U+FF53",
               "U+FF54", "U+FF55", "U+FF56", "U+FF57", "U+FF58",
               "U+FF59", "U+FF5A", "U+10428", "U+10429", "U+1042A",
               "U+1042B", "U+1042C", "U+1042D", "U+1042E", "U+1042F",
               "U+10430", "U+10431", "U+10432", "U+10433", "U+10434",
               "U+10435", "U+10436", "U+10437", "U+10438", "U+10439",
               "U+1043A", "U+1043B", "U+1043C", "U+1043D", "U+1043E",
               "U+1043F", "U+10440", "U+10441", "U+10442", "U+10443",
               "U+10444", "U+10445", "U+10446", "U+10447", "U+10448",
               "U+10449", "U+1044A", "U+1044B", "U+1044C", "U+1044D",
               "U+1044E", "U+1044F", "U+104D8", "U+104D9", "U+104DA",
               "U+104DB", "U+104DC", "U+104DD", "U+104DE", "U+104DF",
               "U+104E0", "U+104E1", "U+104E2", "U+104E3", "U+104E4",
               "U+104E5", "U+104E6", "U+104E7", "U+104E8", "U+104E9",
               "U+104EA", "U+104EB", "U+104EC", "U+104ED", "U+104EE",
               "U+104EF", "U+104F0", "U+104F1", "U+104F2", "U+104F3",
               "U+104F4", "U+104F5", "U+104F6", "U+104F7", "U+104F8",
               "U+104F9", "U+104FA", "U+104FB", "U+10597", "U+10598",
               "U+10599", "U+1059A", "U+1059B", "U+1059C", "U+1059D",
               "U+1059E", "U+1059F", "U+105A0", "U+105A1", "U+105A3",
               "U+105A4", "U+105A5", "U+105A6", "U+105A7", "U+105A8",
               "U+105A9", "U+105AA", "U+105AB", "U+105AC", "U+105AD",
               "U+105AE", "U+105AF", "U+105B0", "U+105B1", "U+105B3",
               "U+105B4", "U+105B5", "U+105B6", "U+105B7", "U+105B8",
               "U+105B9", "U+105BB", "U+105BC", "U+10CC0", "U+10CC1",
               "U+10CC2", "U+10CC3", "U+10CC4", "U+10CC5", "U+10CC6",
               "U+10CC7", "U+10CC8", "U+10CC9", "U+10CCA", "U+10CCB",
               "U+10CCC", "U+10CCD", "U+10CCE", "U+10CCF", "U+10CD0",
               "U+10CD1", "U+10CD2", "U+10CD3", "U+10CD4", "U+10CD5",
               "U+10CD6", "U+10CD7", "U+10CD8", "U+10CD9", "U+10CDA",
               "U+10CDB", "U+10CDC", "U+10CDD", "U+10CDE", "U+10CDF",
               "U+10CE0", "U+10CE1", "U+10CE2", "U+10CE3", "U+10CE4",
               "U+10CE5", "U+10CE6", "U+10CE7", "U+10CE8", "U+10CE9",
               "U+10CEA", "U+10CEB", "U+10CEC", "U+10CED", "U+10CEE",
               "U+10CEF", "U+10CF0", "U+10CF1", "U+10CF2", "U+118C0",
               "U+118C1", "U+118C2", "U+118C3", "U+118C4", "U+118C5",
               "U+118C6", "U+118C7", "U+118C8", "U+118C9", "U+118CA",
               "U+118CB", "U+118CC", "U+118CD", "U+118CE", "U+118CF",
               "U+118D0", "U+118D1", "U+118D2", "U+118D3", "U+118D4",
               "U+118D5", "U+118D6", "U+118D7", "U+118D8", "U+118D9",
               "U+118DA", "U+118DB", "U+118DC", "U+118DD", "U+118DE",
               "U+118DF", "U+16E60", "U+16E61", "U+16E62", "U+16E63",
               "U+16E64", "U+16E65", "U+16E66", "U+16E67", "U+16E68",
               "U+16E69", "U+16E6A", "U+16E6B", "U+16E6C", "U+16E6D",
               "U+16E6E", "U+16E6F", "U+16E70", "U+16E71", "U+16E72",
               "U+16E73", "U+16E74", "U+16E75", "U+16E76", "U+16E77",
               "U+16E78", "U+16E79", "U+16E7A", "U+16E7B", "U+16E7C",
               "U+16E7D", "U+16E7E", "U+16E7F", "U+1E922", "U+1E923",
               "U+1E924", "U+1E925", "U+1E926", "U+1E927", "U+1E928",
               "U+1E929", "U+1E92A", "U+1E92B", "U+1E92C", "U+1E92D",
               "U+1E92E", "U+1E92F", "U+1E930", "U+1E931", "U+1E932",
               "U+1E933", "U+1E934", "U+1E935", "U+1E936", "U+1E937",
               "U+1E938", "U+1E939", "U+1E93A", "U+1E93B", "U+1E93C",
               "U+1E93D", "U+1E93E", "U+1E93F", "U+1E940", "U+1E941",
               "U+1E942", "U+1E943">>

\* The number of bytes in UTF-8 of the characters of one, two and three
\* bytes: ASCII (the control characters without a writing of their own and
\* the grave accent are named by code point too), U+0080 to U+07FF, U+0800
\* to U+FFFF.  Any other character takes four bytes.
Utf8Len ==
    LET Hex == <<"0", "1", "2", "3", "4", "5", "6", "7",
                 "8", "9", "A", "B", "C", "D", "E", "F">>
        Name(c) == "U+" \o Hex[((c \div 4096) % 16) + 1] \o Hex[((c \div 256) % 16) + 1]
                        \o Hex[((c \div 16) % 16) + 1] \o Hex[(c % 16) + 1]
        ascii == {" ", "!", "\"", "#", "$", "%", "&", "'", "(", ")",
                 "*", "+", ",", "-", ".", "/", "0", "1", "2", "3", "4",
                 "5", "6", "7", "8", "9", ":", ";", "<", "=", ">", "?",
                 "@", "A", "B", "C", "D", "E", "F", "G", "H", "I", "J",
                 "K", "L", "M", "N", "O", "P", "Q", "R", "S", "T", "U",
                 "V", "W", "X", "Y", "Z", "[", "\\", "]", "^", "_",
                 "a", "b", "c", "d", "e", "f", "g", "h", "i", "j",
                 "k", "l", "m", "n", "o", "p", "q", "r", "s", "t", "u",
                 "v", "w", "x", "y", "z", "{", "|", "}", "~",
                 "\t", "\n", "\f", "\r"}
                    \cup {Name(c) : c \in ((0..31) \cup {96, 127}) \ {9, 10, 12, 13}}
    IN [c \in ascii |-> 1]
           @@ [c \in {Name(n) : n \in 128..2047} |-> 2]
           @@ [c \in {Name(n) : n \in 2048..65535} |-> 3]

Digits == <<"0", "1", "2", "3", "4", "5", "6", "7", "8", "9">>
\* unicode.IsSpace
WhiteSpace == {" ", "\t", "\n", "\r", "\f",
               "U+000B", "U+0085", "U+00A0", "U+1680", "U+2000", "U+2001",
               "U+2002", "U+2003", "U+2004", "U+2005", "U+2006", "U+2007",
               "U+2008", "U+2009", "U+200A", "U+2028", "U+2029", "U+202F",
               "U+205F", "U+3000"}

IndexOf(seq, c) == IF \E i \in 1..Len(seq) : seq[i] = c
                   THEN CHOOSE i \in 1..Len(seq) : seq[i] = c
                   ELSE 0

\* strings.TrimSpace
RECURSIVE TrimLeft(_)
TrimLeft(s) == IF s # <<>> /\ Head(s) \in WhiteSpace THEN TrimLeft(Tail(s)) ELSE s

RECURSIVE TrimRight(_)
TrimRight(s) ==
    IF s # <<>> /\ s[Len(s)] \in WhiteSpace THEN TrimRight(SubSeq(s, 1, Len(s) - 1)) ELSE s

TrimSpace(s) == TrimRight(TrimLeft(s))

\* strings.ToLower
ToLower(s) == [i \in 1..Len(s) |->
                 LET k == IndexOf(UpperCase, s[i])
                 IN IF k # 0 THEN LowerCase[k] ELSE s[i]]

\* strings.ReplaceAll(s, old, new) for a one-character old; new is a string.
RECURSIVE ReplaceAll(_, _, _)
ReplaceAll(s, old, new) ==
    IF s = <<>> THEN <<>>
    ELSE IF Len(s) = 1 THEN (IF s[1] = old THEN new ELSE s)
    ELSE LET mid == Len(s) \div 2
         IN ReplaceAll(SubSeq(s, 1, mid), old, new)
                \o ReplaceAll(SubSeq(s, mid + 1, Len(s)), old, new)

RECURSIVE replaceDecimals(_, _, _)
replaceDecimals(input, seps, i) ==
    IF i > Len(seps) THEN input
    ELSE replaceDecimals(IF seps[i] # "." THEN ReplaceAll(input, seps[i], <<".">>)
                         ELSE input, seps, i + 1)

RECURSIVE removeThousands(_, _, _)
removeThousands(input, seps, i) ==
    IF i > Len(seps) THEN input
    ELSE removeThousands(ReplaceAll(input, seps[i], <<>>), seps, i + 1)

normalizeInput(input, locale) ==
    LET trimmed == TrimSpace(input)
    IN IF trimmed = <<>> THEN <<>>
       ELSE removeThousands(
                replaceDecimals(ReplaceAll(ToLower(trimmed), " ", <<>>),
                                locale.decimals, 1),
                locale.thousands, 1)

\* isSpecial without the sign: every name gives a positive value.
isSpecial_positive(s) ==
    IF s \in {<<"n", "a", "n">>, <<"+", "n", "a", "n">>, <<"-", "n", "a", "n">>}
    THEN [sign |-> signc_positive, kind |-> kind_quiet, ok |-> TRUE]
    ELSE IF s \in {<<"i", "n", "f">>, <<"i", "n", "f", "i", "n", "i", "t", "y">>,
                   <<"+", "i", "n", "f">>, <<"+", "i", "n", "f", "i", "n", "i", "t", "y">>,
                   <<"-", "i", "n", "f">>, <<"-", "i", "n", "f", "i", "n", "i", "t", "y">>}
    THEN [sign |-> signc_positive, kind |-> kind_infinity, ok |-> TRUE]
    ELSE [sign |-> signc_error, kind |-> kind_finite, ok |-> FALSE]

\* isSpecial: [sign, kind, ok]
isSpecial(s) ==
    IF s \in {<<"n", "a", "n">>, <<"+", "n", "a", "n">>}
    THEN [sign |-> signc_positive, kind |-> kind_quiet, ok |-> TRUE]
    ELSE IF s = <<"-", "n", "a", "n">>
    THEN [sign |-> signc_negative, kind |-> kind_quiet, ok |-> TRUE]
    ELSE IF s \in {<<"i", "n", "f">>, <<"i", "n", "f", "i", "n", "i", "t", "y">>,
                   <<"+", "i", "n", "f">>, <<"+", "i", "n", "f", "i", "n", "i", "t", "y">>}
    THEN [sign |-> signc_positive, kind |-> kind_infinity, ok |-> TRUE]
    ELSE IF s \in {<<"-", "i", "n", "f">>, <<"-", "i", "n", "f", "i", "n", "i", "t", "y">>}
    THEN [sign |-> signc_negative, kind |-> kind_infinity, ok |-> TRUE]
    ELSE [sign |-> signc_error, kind |-> kind_finite, ok |-> FALSE]

\* strings.Split(s, "."): the parts between the points.
SplitPoint(s, cur) ==
    LET t == cur \o s
        points == {i \in 1..Len(t) : t[i] = "."}
        n == Cardinality(points)
        \* the place of the k-th point; 0 and Len(t) + 1 stand at the ends
        place(k) == IF k = 0 THEN 0
                    ELSE IF k > n THEN Len(t) + 1
                    ELSE CHOOSE i \in points : Cardinality({j \in points : j < i}) = k - 1
    IN [k \in 1..(n + 1) |-> SubSeq(t, place(k - 1) + 1, place(k) - 1)]

\* getDigitString without the test of the number of parts: what follows a
\* second point is dropped.
getDigitString_anyParts(s, E) ==
    LET s_sign == IF s # <<>> /\ s[1] = "-" THEN signc_negative ELSE signc_positive
        body == IF s # <<>> /\ s[1] \in {"-", "+"} THEN Tail(s) ELSE s
        parts == SplitPoint(body, <<>>)
        intPart == parts[1]
        fracPart == IF Len(parts) >= 2 THEN parts[2] ELSE <<>>
        \* len(fracPart) counts bytes: what the characters of several bytes add
        extra == Cardinality({<<i, b>> \in (1..Len(fracPart)) \X (2..4) :
                                 b <= (IF fracPart[i] \in DOMAIN Utf8Len
                                       THEN Utf8Len[fracPart[i]] ELSE 4)})
        failed == [sign |-> signc_positive, digits |-> <<>>, exp |-> 0, ok |-> FALSE]
    IN IF s = <<>> THEN failed
       ELSE IF intPart = <<>> /\ fracPart = <<>> THEN failed
       ELSE [sign |-> s_sign, digits |-> intPart \o fracPart,
             exp |-> ToE(-(Len(fracPart) + extra), E), ok |-> TRUE]

\* getDigitString[E]: [sign, digits, exp, ok]; E is the width of the exponent
\* type (8 or 16).
getDigitString(s, E) ==
    LET s_sign == IF s # <<>> /\ s[1] = "-" THEN signc_negative ELSE signc_positive
        body == IF s # <<>> /\ s[1] \in {"-", "+"} THEN Tail(s) ELSE s
        parts == SplitPoint(body, <<>>)
        intPart == parts[1]
        fracPart == IF Len(parts) = 2 THEN parts[2] ELSE <<>>
        \* len(fracPart) counts bytes: what the characters of several bytes add
        extra == Cardinality({<<i, b>> \in (1..Len(fracPart)) \X (2..4) :
                                 b <= (IF fracPart[i] \in DOMAIN Utf8Len
                                       THEN Utf8Len[fracPart[i]] ELSE 4)})
        failed == [sign |-> signc_positive, digits |-> <<>>, exp |-> 0, ok |-> FALSE]
    IN IF s = <<>> THEN failed
       ELSE IF Len(parts) > 2 THEN failed
       ELSE IF intPart = <<>> /\ fracPart = <<>> THEN failed
       ELSE [sign |-> s_sign, digits |-> intPart \o fracPart,
             exp |-> ToE(-(Len(fracPart) + extra), E), ok |-> TRUE]

\* strconv.ParseUint(digits, 10, 64): [value, err].  The value is checked against
\* the cutoff (maxUint64/10 + 1) before each multiplication and for wrap-around
\* after each addition, as the library does.
RECURSIVE ParseUintFrom(_, _, _, _)
\* The loop over the characters lo..hi, entered with [value, err]; the range
\* is halved and the second half is entered with the outcome of the first.
ParseUintFrom(digits, lo, hi, st) ==
    IF lo > hi THEN st
    ELSE IF lo = hi
    THEN LET n == st.value
             d == IndexOf(Digits, digits[lo]) - 1
             cutoff == UAdd(UDivModSmall(USub(U64(0), U64(1)), 10).q, U64(1))
             n10 == UMulSmall(n, 10)
             n1 == UAdd(n10, U64(d))
         IN IF d < 0 THEN [value |-> U64(0), err |-> TRUE]
            ELSE IF UGe(n, cutoff) THEN [value |-> USub(U64(0), U64(1)), err |-> TRUE]
            ELSE IF ULt(n1, n10) THEN [value |-> USub(U64(0), U64(1)), err |-> TRUE]
            ELSE [value |-> n1, err |-> FALSE]
    ELSE LET mid == (lo + hi) \div 2
             first == ParseUintFrom(digits, lo, mid, st)
         IN IF first.err THEN first
            ELSE ParseUintFrom(digits, mid + 1, hi, first)

ParseUint(digits) ==
    IF digits = <<>> THEN [value |-> U64(0), err |-> TRUE]
    ELSE ParseUintFrom(digits, 1, Len(digits), [value |-> U64(0), err |-> FALSE])

\* parseInput for a non-nil context: [sign, kind, coe, exp, signals]; coe is the
\* uint64 value before its conversion to the coefficient type.
parseInput(c, s, maxCoefficient, eMax, E) ==
    LET n == normalizeInput(s, c.locale)
        sp == isSpecial(n)
        ds == getDigitString(n, E)
        pu == ParseUint(ds.digits)
        bad(sig) == [sign |-> signc_positive, kind |-> kind_signaling,
                     coe |-> U64(0), exp |-> 0, signals |-> sig]
    IN IF n = <<>> THEN bad(SignalConversionSyntax)
       ELSE IF sp.ok
       THEN [sign |-> sp.sign, kind |-> sp.kind, coe |-> U64(0), exp |-> 0, signals |-> 0]
       ELSE IF ~ds.ok THEN bad(SignalConversionSyntax)
       ELSE IF pu.err THEN bad(SignalConversionSyntax)
       ELSE IF UGt(pu.value, maxCoefficient) \/ ds.exp > eMax THEN bad(SignalOverflow)
       ELSE [sign |-> ds.sign, kind |-> sp.kind, coe |-> pu.value, exp |-> ds.exp,
             signals |-> 0]

\* uint64 widened from / narrowed to the coefficient type.
Widen(x) == IF Len(x) = 4 THEN x ELSE <<x[1], x[2], 0, 0>>
Narrow32(x) == <<x[1], x[2]>>

\* "ctx.signals |= sig; return newSpecial(signc_positive, kind_signaling)":
\* the value returned and the context after the call.
Raised64(c, sig) ==
    [x |-> newSpecial64(signc_positive, kind_signaling),
     c |-> [c EXCEPT !.signals = BitOr(c.signals, sig)]]

Raised32(c, sig) ==
    [x |-> newSpecial32(signc_positive, kind_signaling),
     c |-> [c EXCEPT !.signals = BitOr(c.signals, sig)]]

\* The end of Parse and of Add: rd is what Round gave for the packed value; an
\* error raises SignalInvalidOperation, otherwise the rounded value is returned.
Rounded64(c, rd) ==
    IF rd.err THEN Raised64(c, SignalInvalidOperation) ELSE [x |-> rd.x, c |-> c]

Rounded32(c, rd) ==
    IF rd.err THEN Raised32(c, SignalInvalidOperation) ELSE [x |-> rd.x, c |-> c]

\* The rest of (ctx *Context64).Parse once parseInput has returned p: the
\* signals are accumulated, a special value is returned as such, a finite one
\* is packed and rounded.
Parse64From(c, p) ==
    LET c1 == [c EXCEPT !.signals = BitOr(c.signals, p.signals)]
        pk == pack64(U64(0), kind_finite, p.sign, p.exp, p.coe)
    IN IF p.kind # kind_finite THEN [x |-> newSpecial64(p.sign, p.kind), c |-> c1]
       ELSE IF pk.err THEN Raised64(c1, SignalConversionSyntax)
       ELSE Rounded64(c1, Round64(pk.x, c.rounding, c.precision))

\* The rest of (ctx *Context32).Parse once parseInput has returned p: the
\* signals are accumulated, a special value is returned as such, a finite one
\* is packed and rounded.
Parse32From(c, p) ==
    LET c1 == [c EXCEPT !.signals = BitOr(c.signals, p.signals)]
        pk == pack32(U32(0), kind_finite, p.sign, p.exp, Narrow32(p.coe))
    IN IF p.kind # kind_finite THEN [x |-> newSpecial32(p.sign, p.kind), c |-> c1]
       ELSE IF pk.err THEN Raised32(c1, SignalConversionSyntax)
       ELSE Rounded32(c1, Round32(pk.x, c.rounding, c.precision))

\* Parse64 that forgets the sticky signals: the context holds only the
\* signals of this call ("=" where the code has "|=").
Parse64_overwrite(c, s) ==
    Parse64From([c EXCEPT !.signals = 0],
                parseInput(c, s, maxCoefficient64, eMax64, 16))

\* (ctx *Context64).Parse(s) on a non-nil context: [x, c] = the value returned
\* and the context after the call.
Parse64(c, s) == Parse64From(c, parseInput(c, s, maxCoefficient64, eMax64, 16))

\* (ctx *Context32).Parse(s) on a non-nil context.
Parse32(c, s) == Parse32From(c, parseInput(c, s, Widen(maxCoefficient32), eMax32, 8))

----------------------------------------------------------------------------
(* Context operations.                                                     *)

\* HandleSignals that ignores the trap mask: any sticky signal selects the
\* fallback.
HandleSignals_untrapped(c, original, fallback) ==
    IF c.signals # 0 THEN fallback ELSE original

\* HandleSignals(original, fallback), the same for Context64 and Context32.
HandleSignals(c, original, fallback) ==
    IF BitAnd(c.signals, c.traps) # 0 THEN fallback ELSE original

\* Clone: a new context built from four fields of c; the composite literal
\* names no locale, which is therefore the zero Locale (two empty strings).
Clone(c, clear) ==
    [precision |-> c.precision,
     rounding |-> c.rounding,
     traps |-> c.traps,
     signals |-> IF clear THEN 0 ELSE c.signals,
     locale |-> [decimals |-> <<>>, thousands |-> <<>>]]

\* ClearSignals: the context after the call.
ClearSignals(c) == [c EXCEPT !.signals = 0]

\* (ctx *Context64).Add(a, b) once the operands are unpacked into ua and ub.
Add64From(c, a, b, ua, ub) ==
    LET \* "adjust the coefficients so exp is the same": the exponent is moved
        \* first, so the shift count that follows is aexp - bexp = 0.
        bexp1 == IF ua.exp > ub.exp THEN ToInt16(ub.exp + ToInt16(ua.exp - ub.exp))
                 ELSE ub.exp
        bcoe1 == IF ua.exp > ub.exp THEN UShr(ub.coe, ua.exp - bexp1) ELSE ub.coe
        aexp1 == IF bexp1 > ua.exp THEN ToInt16(ua.exp + ToInt16(bexp1 - ua.exp))
                 ELSE ua.exp
        acoe1 == IF bexp1 > ua.exp THEN UShr(ua.coe, bexp1 - aexp1) ELSE ua.coe
        acoe2 == IF ua.sign = ub.sign THEN UAdd(acoe1, bcoe1)
                 ELSE IF UGt(acoe1, bcoe1) THEN USub(acoe1, bcoe1)
                 ELSE USub(bcoe1, acoe1)
        asign2 == IF ua.sign = ub.sign THEN ua.sign
                  ELSE IF UGt(acoe1, bcoe1) THEN ua.sign
                  ELSE signc_negative
        pk == pack64(U64(0), kind_finite, asign2, aexp1, acoe2)
    IN IF ua.kind = kind_signaling \/ ua.kind = kind_quiet THEN [x |-> a, c |-> c]
       ELSE IF ub.kind = kind_signaling \/ ub.kind = kind_quiet THEN [x |-> b, c |-> c]
       ELSE IF ua.kind = kind_infinity \/ ub.kind = kind_infinity
       THEN IF ua.sign = ub.sign
            THEN [x |-> newSpecial64(ua.sign, kind_infinity), c |-> c]
            ELSE [x |-> newSpecial64(signc_positive, kind_signaling), c |-> c]
       ELSE IF pk.err THEN Raised64(c, SignalInvalidOperation)
       ELSE Rounded64(c, Round64(pk.x, c.rounding, c.precision))

\* (ctx *Context64).Add(a, b) on a non-nil context: [x, c].
Add64(c, a, b) == Add64From(c, a, b, unpack64(a), unpack64(b))

----------------------------------------------------------------------------
(* quantize64 / quantize32.  f is the format: "X64" runs on uint64 and      *)
(* int16, "X32" on uint32 and int8.  The result is [x, sig, panic]: the    *)
(* value and the signal returned, or a run-time panic (integer division by *)
(* zero).                                                                  *)

\* pow10Lookup[n], 0 <= n <= 19
pow10Lookup(n) == UDec(<<1>> \o [i \in 1..n |-> 0], 4)

\* pow10[U](n) for the uint n; a negative count converted to uint is beyond
\* every index.  w is the number of limbs of U.
pow10(n, w) ==
    IF w = 2 THEN (IF n >= 0 /\ n <= 9 THEN Narrow32(pow10Lookup(n)) ELSE U32(0))
    ELSE (IF n >= 0 /\ n <= 19 THEN pow10Lookup(n) ELSE U64(0))

\* "var result X64; err = result.pack(k, sign, expTarget, coe)"
packResult(f, k, sign, exp, coe) ==
    IF f = "X64" THEN pack64(U64(0), k, sign, exp, coe)
    ELSE pack32(U32(0), k, sign, exp, coe)

Quantized(x, sig) == [x |-> x, sig |-> sig, panic |-> FALSE]
Panicked(x) == [x |-> x, sig |-> 0, panic |-> TRUE]

\* The end of quantize: the error of pack gives the zero value and
\* InvalidOperation.
quantizePacked(pk, zero) ==
    IF pk.err THEN Quantized(zero, SignalInvalidOperation) ELSE Quantized(pk.x, 0)

\* The switch of quantize: whether the quotient is incremented.
quantizeRoundsUp(mode, quotient, remainder, halfDivisor, sign) ==
    CASE mode = RoundTiesToEven ->
            UGt(remainder, halfDivisor)
                \/ (remainder = halfDivisor /\ quotient[1] % 2 = 1)
      [] mode = RoundTiesToAway -> UGe(remainder, halfDivisor)
      [] mode = RoundTowardPositive ->
            UGt(remainder, UZero(Len(remainder))) /\ sign = signc_positive
      [] mode = RoundTowardNegative ->
            UGt(remainder, UZero(Len(remainder))) /\ sign = signc_negative
      [] OTHER -> FALSE

\* shift < 0: the coefficient is multiplied by 10^-shift.
quantizeUp(f, u, expTarget, multiplier, maxCoefficient) ==
    IF multiplier = UZero(Len(multiplier)) THEN Panicked(UZero(Len(multiplier)))
    ELSE IF UGt(u.coe, UDiv(maxCoefficient, multiplier))
    THEN Quantized(UZero(Len(multiplier)), SignalOverflow)
    ELSE quantizePacked(packResult(f, u.kind, u.sign, expTarget, UMul(u.coe, multiplier)),
                        UZero(Len(multiplier)))

\* shift > 0: dm is the quotient and the remainder of the coefficient by the
\* divisor 10^shift.
quantizeDown(f, u, expTarget, mode, divisor, dm) ==
    quantizePacked(
        packResult(f, u.kind, u.sign, expTarget,
                   IF quantizeRoundsUp(mode, dm.q, dm.r, UDivModSmall(divisor, 2).q, u.sign)
                   THEN UAdd(dm.q, UInt(1, Len(divisor))) ELSE dm.q),
        UZero(Len(divisor)))

quantizeDownBy(f, u, expTarget, mode, divisor) ==
    IF divisor = UZero(Len(divisor)) THEN Panicked(UZero(Len(divisor)))
    ELSE quantizeDown(f, u, expTarget, mode, divisor, UDivMod(u.coe, divisor))

\* quantize once the value is unpacked into the finite u and the shift is
\* computed in the exponent type (E bits).
quantizeShift(f, x, u, expTarget, mode, shift, E) ==
    IF shift = 0 THEN Quantized(x, 0)
    ELSE IF shift < 0
    THEN quantizeUp(f, u, expTarget, pow10(ToE(-shift, E), Len(x)),
                    IF f = "X64" THEN maxCoefficient64 ELSE maxCoefficient32)
    ELSE quantizeDownBy(f, u, expTarget, mode, pow10(shift, Len(x)))

quantizeFrom(f, x, u, expTarget, mode, E) ==
    IF u.kind # kind_finite THEN Quantized(x, SignalInvalidOperation)
    ELSE quantizeShift(f, x, u, expTarget, mode, ToE(expTarget - u.exp, E), E)

quantize64(x, expTarget, mode) == quantizeFrom("X64", x, unpack64(x), expTarget, mode, 16)
quantize32(x, expTarget, mode) == quantizeFrom("X32", x, unpack32(x), expTarget, mode, 8)

----------------------------------------------------------------------------
(* The formatter: (x X64).String().  Strings are sequences of characters.   *)

\* strconv.FormatUint(n, 10) for n > 0, digit by digit from the right.
RECURSIVE FormatUintFrom(_, _)
FormatUintFrom(n, acc) ==
    IF n = UZero(Len(n)) THEN acc
    ELSE LET d == UDivModSmall(n, 10)
         IN FormatUintFrom(d.q, <<Digits[d.r[1] + 1]>> \o acc)

FormatUint(n) == IF n = UZero(Len(n)) THEN <<"0">> ELSE FormatUintFrom(n, <<>>)

\* The decimal digits of the integer n >= 0.
RECURSIVE FormatNat(_)
FormatNat(n) ==
    IF n < 10 THEN <<Digits[n + 1]>>
    ELSE FormatNat(n \div 10) \o <<Digits[(n % 10) + 1]>>

\* fmt.Sprintf("%+d", n)
FormatSigned(n) == IF n < 0 THEN <<"-">> \o FormatNat(-n) ELSE <<"+">> \o FormatNat(n)

\* strings.Repeat(c, n)
Repeat(c, n) == [i \in 1..n |-> c]

\* No trimming: the string as it is.
TrimRightZeros_none(s) == s

\* strings.TrimRight(s, "0")
RECURSIVE TrimRightZeros(_)
TrimRightZeros(s) ==
    IF s # <<>> /\ s[Len(s)] = "0" THEN TrimRightZeros(SubSeq(s, 1, Len(s) - 1)) ELSE s

\* String for a finite value with a non-zero coefficient whose decimal digits
\* are coeStr.
String64Finite(sign, exp, coeStr) ==
    LET signStr == IF sign = signc_negative THEN <<"-">> ELSE <<>>
        absExp == IF exp < 0 THEN ToInt16(-exp) ELSE exp
        digits == Len(coeStr)
        adjExp == ToInt16(exp + ToInt16(digits - 1))
        trimmed == TrimRightZeros(IF digits > 1 THEN Tail(coeStr) ELSE <<"0">>)
        frac == IF trimmed = <<>> THEN <<"0">> ELSE trimmed
        pos == digits + exp
    IN IF absExp > 6
       THEN signStr \o <<coeStr[1], ".">> \o frac \o <<"e">> \o FormatSigned(adjExp)
       ELSE IF exp >= 0 THEN signStr \o coeStr \o Repeat("0", exp)
       ELSE IF -exp >= digits
       THEN signStr \o <<"0", ".">> \o Repeat("0", (-exp) - digits) \o coeStr
       ELSE signStr \o SubSeq(coeStr, 1, pos) \o <<".">> \o SubSeq(coeStr, pos + 1, digits)

\* String once the value is unpacked into u.
String64From(u) ==
    LET signStr == IF u.sign = signc_negative THEN <<"-">> ELSE <<>>
    IN IF u.kind = kind_quiet THEN signStr \o <<"q", "N", "a", "N">>
       ELSE IF u.kind = kind_signaling THEN signStr \o <<"s", "N", "a", "N">>
       ELSE IF u.kind = kind_infinity
       THEN signStr \o <<"I", "n", "f", "i", "n", "i", "t", "y">>
       ELSE IF u.coe = U64(0) THEN signStr \o <<"0">>
       ELSE String64Finite(u.sign, u.exp, FormatUint(u.coe))

\* (x X64).String()
String64(x) == String64From(unpack64(x))

----------------------------------------------------------------------------
(* The diagnostic payload table (diagnostic.go).  A payload is the 64-bit  *)
(* FNV-1a hash of "Function:File:Line"; payloadMap maps payloads to the    *)
(* DiagnosticInfo registered under them and payloadMutex guards it.        *)

\* The byte of a character of the strings hashed here (ASCII).
Ascii(c) ==
    IF IndexOf(Digits, c) > 0 THEN 47 + IndexOf(Digits, c)
    ELSE IF IndexOf(UpperCase, c) \in 1..26 THEN 64 + IndexOf(UpperCase, c)
    ELSE IF IndexOf(LowerCase, c) \in 1..26 THEN 96 + IndexOf(LowerCase, c)
    ELSE CASE c = "." -> 46
           [] c = "/" -> 47
           [] c = ":" -> 58
           [] c = "_" -> 95

\* x ^ y
UXor(x, y) == [i \in 1..Len(x) |-> x[i] + y[i] - 2 * BitAnd(x[i], y[i])]

\* hash/fnv, New64a: the offset basis and the prime of the 64-bit hash
fnvOffset64 == UDec(<<1, 4, 6, 9, 5, 9, 8, 1, 0, 3, 9, 3, 4, 6, 6, 5, 6, 0, 3, 7>>, 4)
fnvPrime64 == UDec(<<1, 0, 9, 9, 5, 1, 1, 6, 2, 8, 2, 1, 1>>, 4)

\* h.Write(bytes); h.Sum64(): for each byte, xor it in, then multiply.
\* Sum64a(s, n) is the hash of the first n bytes of s.
RECURSIVE Sum64a(_, _)
Sum64a(s, n) ==
    IF n = 0 THEN fnvOffset64
    ELSE LET h == Sum64a(s, n - 1)
         IN \* h is a uint64; the test has it computed before the product
            IF Len(h) = 4 THEN UMul(UXor(h, U64(Ascii(s[n]))), fnvPrime64)
            ELSE h

\* fmt.Sprintf("%s:%s:%d", diag.Function, diag.File, diag.Line)
DiagnosticKey(diag) ==
    diag.Function \o <<":">> \o diag.File \o <<":">> \o FormatNat(diag.Line)

DiagnosticInfo(function, file, line) == [Function |-> function, File |-> file, Line |-> line]

\* The zero DiagnosticInfo, which a map lookup gives for a missing key.
NoDiagnosticInfo == DiagnosticInfo(<<>>, <<>>, 0)

\* hashDiagnosticInfo: the hash of fmt.Sprintf("%s:%s:%d", ...)
hashDiagnosticInfo(diag) == Sum64a(DiagnosticKey(diag), Len(DiagnosticKey(diag)))

\* Whether Lock on the mutex mu goes through: it blocks while mu is locked.
MutexFree_always(mu) == TRUE
MutexFree(mu) == ~mu

\* A goroutine that is in no call on the table.
Idle == [pc |-> "idle", fn |-> "", diag |-> NoDiagnosticInfo, payload |-> U64(0),
         exists |-> FALSE]

MaxGoroutines == 2
Goroutines == 1..MaxGoroutines

\* The table as the package starts: an empty map, the mutex unlocked.
InitRegistry ==
    /\ payloadMap = <<>>
    /\ payloadMutex = FALSE
    /\ goroutines = [g \in Goroutines |-> Idle]

----------------------------------------------------------------------------
(* The state machine.  ctx is the context, fmt its format, and last records *)
(* the call made last: its name, its arguments, what it returned and the   *)
(* sticky signals the context held before it.                              *)

Call(op, args, res, pre) == [op |-> op, args |-> args, res |-> res, pre |-> pre]

Formats == {"X32", "X64"}

\* BasicContext64 / BasicContext32: an error of the constructor is a panic.
BasicContext64 ==
    LET n == newContext(PrecisionDefault64, RoundTiesToEven, BasicTraps, DefaultLocale,
                        PrecisionMaximum64)
    IN IF n.err # "nil" THEN "panic" ELSE n.context

BasicContext32 ==
    LET n == newContext(PrecisionDefault32, RoundTiesToEven, BasicTraps, DefaultLocale,
                        PrecisionMaximum32)
    IN IF n.err # "nil" THEN "panic" ELSE n.context
BasicContext(f) == IF f = "X64" THEN BasicContext64 ELSE BasicContext32

Kinds == {kind_signaling, kind_quiet, kind_infinity, kind_finite}
Signs == {signc_negative, signc_positive}
Roundings == {RoundTiesToEven, RoundTiesToAway, RoundTowardPositive,
              RoundTowardNegative, RoundTowardZero}

----------------------------------------------------------------------------
(* Codec: pack a tuple into a fresh value, then unpack the value.          *)

ExpSpan == 1
CoeSpan == 1

Near(n) == (n - ExpSpan)..(n + ExpSpan)

\* Exponents at the edges of the range, around 0, and around the first
\* exponent whose biased value has both of its top bits set.
PackExps(f) ==
    IF f = "X64"
    THEN Near(eMin64) \cup Near(0) \cup Near(3 * 2^8 - bias64) \cup Near(eMax64)
    ELSE Near(eMin32) \cup Near(0) \cup Near(3 * 2^6 - bias32) \cup Near(eMax32)

CoeNear(c) == {USub(c, UInt(i, Len(c))) : i \in 0..CoeSpan}
                 \cup {UAdd(c, UInt(i, Len(c))) : i \in 0..CoeSpan}

\* Coefficients around 0, around the limit of the small form (2^53, 2^20)
\* and around the maximum coefficient.
PackCoes(f) ==
    IF f = "X64"
    THEN {U64(i) : i \in 0..CoeSpan} \cup {U64(42)}
            \cup CoeNear(UShl(U64(1), 53)) \cup CoeNear(maxCoefficient64)
    ELSE {U32(i) : i \in 0..CoeSpan} \cup {U32(42)}
            \cup CoeNear(UShl(U32(1), 20)) \cup CoeNear(maxCoefficient32)

\* Kinds and signs handed to pack, the invalid ones included.
PackKinds == Kinds \cup {4}
PackSigns == Signs \cup {signc_error}

InitCodec ==
    /\ fmt \in Formats
    /\ ctx = BasicContext(fmt)
    /\ last = Call("new", <<>>, IF fmt = "X64" THEN U64(0) ELSE U32(0), 0)
    /\ InitRegistry

Pack64(k, sign, exp, coe) ==
    /\ fmt = "X64"
    /\ last.op = "new"
    /\ last' = Call("pack", <<k, sign, exp, coe>>, pack64(last.res, k, sign, exp, coe), 0)
    /\ UNCHANGED <<ctx, fmt, registry>>

Pack32(k, sign, exp, coe) ==
    /\ fmt = "X32"
    /\ last.op = "new"
    /\ last' = Call("pack", <<k, sign, exp, coe>>, pack32(last.res, k, sign, exp, coe), 0)
    /\ UNCHANGED <<ctx, fmt, registry>>

Unpack64 ==
    /\ fmt = "X64"
    /\ last.op = "pack"
    /\ ~last.res.err
    /\ last' = Call("unpack", <<last.res.x>>, unpack64(last.res.x), 0)
    /\ UNCHANGED <<ctx, fmt, registry>>

Unpack32 ==
    /\ fmt = "X32"
    /\ last.op = "pack"
    /\ ~last.res.err
    /\ last' = Call("unpack", <<last.res.x>>, unpack32(last.res.x), 0)
    /\ UNCHANGED <<ctx, fmt, registry>>

IsZero64 ==
    /\ fmt = "X64"
    /\ last.op = "pack"
    /\ ~last.res.err
    /\ last' = Call("isZero", <<last.res.x>>, isZero64(last.res.x), 0)
    /\ UNCHANGED <<ctx, fmt, registry>>

IsZero32 ==
    /\ fmt = "X32"
    /\ last.op = "pack"
    /\ ~last.res.err
    /\ last' = Call("isZero", <<last.res.x>>, isZero32(last.res.x), 0)
    /\ UNCHANGED <<ctx, fmt, registry>>

NextCodec ==
    \/ \E k \in PackKinds, sign \in PackSigns, exp \in PackExps("X64"),
          coe \in PackCoes("X64") : Pack64(k, sign, exp, coe)
    \/ \E k \in PackKinds, sign \in PackSigns, exp \in PackExps("X32"),
          coe \in PackCoes("X32") : Pack32(k, sign, exp, coe)
    \/ Unpack64
    \/ Unpack32
    \/ IsZero64
    \/ IsZero32

SpecCodec == InitCodec /\ [][NextCodec]_vars

----------------------------------------------------------------------------
(* Claims about the codec (SpecCodec).                                     *)

EMin(f) == IF f = "X64" THEN eMin64 ELSE eMin32
EMax(f) == IF f = "X64" THEN eMax64 ELSE eMax32
MaxCoefficient(f) == IF f = "X64" THEN maxCoefficient64 ELSE maxCoefficient32
unpack(f, x) == IF f = "X64" THEN unpack64(x) ELSE unpack32(x)

\* C1: for both formats, every tuple (kind, sign, exponent, coefficient) that
\* packs without error unpacks to the same kind, sign, exponent and
\* coefficient, except that a NaN or an Infinity unpacks with exponent 0 and
\* an Infinity with coefficient 0.
C1_PackUnpackRoundTrip ==
    (last.op = "pack" /\ ~last.res.err) =>
        LET k == last.args[1]
            u == unpack(fmt, last.res.x)
        IN /\ u.kind = k
           /\ u.sign = last.args[2]
           /\ u.exp = (IF k = kind_finite THEN last.args[3] ELSE 0)
           /\ u.coe = (IF k = kind_infinity THEN UZero(Len(u.coe)) ELSE last.args[4])

\* C2: every value of finite kind that pack returned unpacks to a coefficient
\* in [0, MaxCoefficient] and an exponent in [E_min, E_max] of its format.
C2_FiniteWithinRange ==
    (last.op = "unpack" /\ last.res.kind = kind_finite) =>
        /\ ULe(last.res.coe, MaxCoefficient(fmt))
        /\ last.res.exp >= EMin(fmt)
        /\ last.res.exp <= EMax(fmt)

\* C3: pack returns an error whenever the sign is neither positive nor
\* negative, whenever a finite tuple has a coefficient above the maximum of
\* the format, and whenever a finite tuple has an exponent outside
\* [E_min, E_max].
C3_PackRejectsInvalid ==
    last.op = "pack" =>
        LET k == last.args[1]
            sign == last.args[2]
            exp == last.args[3]
            coe == last.args[4]
        IN (\/ sign \notin {signc_positive, signc_negative}
            \/ (k = kind_finite /\ UGt(coe, MaxCoefficient(fmt)))
            \/ (k = kind_finite /\ (exp < EMin(fmt) \/ exp > EMax(fmt))))
           => last.res.err

\* A finite tuple of valid sign and exponent whose coefficient is just above
\* the maximum was handed to X64.pack and refused.
C3_Witness ==
    /\ fmt = "X64"
    /\ last.op = "pack"
    /\ last.args[1] = kind_finite
    /\ last.args[2] = signc_positive
    /\ last.args[3] = 0
    /\ last.args[4] = UAdd(maxCoefficient64, U64(1))
    /\ last.res.err

----------------------------------------------------------------------------
(* Rounding engine: Apply on a coefficient of either width.                *)

MaxRemove == 2
PrecSpan == 1

RoundPrecisions == PrecisionMinimum..(PrecisionMinimum + PrecSpan)

\* 10^n as an integer of the model (n small).
RECURSIVE Ten(_)
Ten(n) == IF n = 0 THEN 1 ELSE 10 * Ten(n - 1)

\* Remainders on both sides of the half of 10^d, and at its ends.
RoundRemainders(d) ==
    {0, 1, Ten(d) \div 2 - 1, Ten(d) \div 2, Ten(d) \div 2 + 1, Ten(d) - 1}

\* Quotients of three to five digits, odd and even, the all-nines included.
RoundQuotients == {100, 101, 998, 999, 1000, 1001, 9998, 9999}

\* Coefficients of w limbs: short ones, every quotient followed by up to
\* MaxRemove digits, and long ones (the maximum coefficient, the largest
\* word, a tie with many zeros).
RoundCoes(w) ==
    {UInt(n, w) : n \in {0, 1, 99, 999}}
        \cup UNION {{UInt(q * Ten(d) + r, w) :
                        q \in RoundQuotients, r \in RoundRemainders(d)} : d \in 1..MaxRemove}
        \cup (IF w = 4
              THEN {maxCoefficient64, USub(U64(0), U64(1)),
                    UDec(<<1, 2, 3, 4, 5, 0, 0, 0, 0, 0, 0, 0, 0, 0, 0, 0>>, 4),
                    UDec(<<1, 2, 3, 5, 5, 0, 0, 0, 0, 0, 0, 0, 0, 0, 0, 0>>, 4)}
              ELSE {maxCoefficient32, USub(U32(0), U32(1)),
                    UDec(<<1, 2, 3, 4, 5, 0, 0>>, 2), UDec(<<1, 2, 3, 5, 5, 0, 0>>, 2)})

InitRound ==
    /\ fmt \in Formats
    /\ ctx = BasicContext(fmt)
    /\ last = Call("new", <<>>, IF fmt = "X64" THEN U64(0) ELSE U32(0), 0)
    /\ InitRegistry

Apply64(mode, coef, precision, sign) ==
    /\ fmt = "X64"
    /\ last.op = "new"
    /\ last' = Call("Apply", <<mode, coef, precision, sign>>,
                    Apply(mode, coef, 0, precision, sign), 0)
    /\ UNCHANGED <<ctx, fmt, registry>>

Apply32(mode, coef, precision, sign) ==
    /\ fmt = "X32"
    /\ last.op = "new"
    /\ last' = Call("Apply", <<mode, coef, precision, sign>>,
                    Apply(mode, coef, 0, precision, sign), 0)
    /\ UNCHANGED <<ctx, fmt, registry>>

NextRound ==
    \/ \E mode \in Roundings, coef \in RoundCoes(4), precision \in RoundPrecisions,
          sign \in Signs : Apply64(mode, coef, precision, sign)
    \/ \E mode \in Roundings, coef \in RoundCoes(2), precision \in RoundPrecisions,
          sign \in Signs : Apply32(mode, coef, precision, sign)

SpecRound == InitRound /\ [][NextRound]_vars

----------------------------------------------------------------------------
(* Claim about the rounding engine (SpecRound).  The claim is stated in    *)
(* words of five limbs, wide enough for every product below.               *)

Wide(x) == <<Limb(x, 1), Limb(x, 2), Limb(x, 3), Limb(x, 4), Limb(x, 5)>>

\* 10^n in five limbs
TenTo(n) == UDec(<<1>> \o [i \in 1..n |-> 0], 5)

\* The number of decimal digits of the wide word n (1 for 0).
DecDigits(n) ==
    CHOOSE k \in 1..20 : (k = 1 \/ UGe(n, TenTo(k - 1))) /\ ULt(n, TenTo(k))

\* The rule of the claim: whether quotient q with remainder r of a division
\* by 10^d is incremented under the mode, for a value of the given sign.
IncrementRule(mode, q, r, d, sign) ==
    LET half == UMulSmall(TenTo(d - 1), 5)
    IN CASE mode = RoundTiesToEven -> UGt(r, half) \/ (r = half /\ q[1] % 2 = 1)
         [] mode = RoundTiesToAway -> UGe(r, half)
         [] mode = RoundTowardPositive -> UGt(r, UZero(5)) /\ sign = signc_positive
         [] mode = RoundTowardNegative -> UGt(r, UZero(5)) /\ sign = signc_negative
         [] mode = RoundTowardZero -> FALSE

\* C4: Apply returns (coefficient, 0) when the coefficient has at most
\* `precision` digits; otherwise, with d = digits - precision, q = coefficient
\* div 10^d and r = coefficient mod 10^d, it returns (q, d) or (q + 1, d), and
\* q is incremented exactly when the rule of the mode says so (TiesToEven:
\* r > 10^d/2, or r = 10^d/2 and q odd; TiesToAway: r >= 10^d/2;
\* TowardPositive: r > 0 and positive; TowardNegative: r > 0 and negative;
\* TowardZero: never).  Precisions are those of the contexts, 3 and above.
C4_ApplyRoundingRule ==
    last.op = "Apply" =>
        LET mode == last.args[1]
            coef == Wide(last.args[2])
            precision == last.args[3]
            sign == last.args[4]
            digits == DecDigits(coef)
            d == digits - precision
            c == Wide(last.res.coe)
            kept == UMul(c, TenTo(d))
            below == UMul(USub(c, UInt(1, 5)), TenTo(d))
        IN IF digits <= precision
           THEN last.res.coe = last.args[2] /\ last.res.removed = 0
           ELSE /\ last.res.removed = d
                /\ IF ULe(kept, coef)
                   THEN \* c is the quotient: it was not incremented
                        /\ ULt(USub(coef, kept), TenTo(d))
                        /\ ~IncrementRule(mode, c, USub(coef, kept), d, sign)
                   ELSE \* c is the quotient plus one: it was incremented
                        /\ ULe(below, coef)
                        /\ IncrementRule(mode, USub(c, UInt(1, 5)), USub(coef, below), d, sign)

\* Apply met a tie under RoundTiesToEven with an odd quotient, and incremented
\* it: 10015 at precision 4 became 1002 with one digit removed.
C4_Witness ==
    /\ last.op = "Apply"
    /\ last.args[1] = RoundTiesToEven
    /\ last.args[2] = U64(10015)
    /\ last.args[3] = 4
    /\ last.res.coe = U64(1002)
    /\ last.res.removed = 1

----------------------------------------------------------------------------
(* The context machine: one context, constructed with one of a few trap    *)
(* masks, and any sequence of calls on it.                                 *)

\* The finite value packed from (sign, exp, coe).
value64(sign, exp, coe) == pack64(U64(0), kind_finite, sign, exp, coe).x
value32(sign, exp, coe) == pack32(U32(0), kind_finite, sign, exp, coe).x

TrapChoices == {0, SignalOverflow, BasicTraps}

\* Strings handed to Parse: numbers, specials, malformed input, and a
\* coefficient too long for either format.
ParseInputs ==
    { <<"1">>,
      <<"-", "1", ".", "5">>,
      <<"1", ",", "0", "0", "0", ".", "2", "5">>,
      <<"N", "a", "N">>,
      <<"-", "i", "n", "f">>,
      <<>>,
      <<"1", ".", "2", ".", "3">>,
      <<"1", "2", "a">>,
      <<"9", "9", "9", "9", "9", "9", "9", "9", "9", "9", "9", "9", "9", "9", "9", "9", "9">> }

\* Operands handed to Add: a NaN, the infinities, +1 and 5 * 10^15 (twice
\* that is more than the maximum coefficient).
CtxOperands ==
    { newSpecial64(signc_positive, kind_signaling),
      newSpecial64(signc_positive, kind_infinity),
      newSpecial64(signc_negative, kind_infinity),
      value64(signc_positive, 0, U64(1)),
      value64(signc_positive, 0, UDec(<<5, 0, 0, 0, 0, 0, 0, 0, 0, 0, 0, 0, 0, 0, 0, 0>>, 4)) }

\* Values handed to HandleSignals.
HandleValues(f) ==
    IF f = "X64"
    THEN {value64(signc_positive, 0, U64(0)), value64(signc_positive, 0, U64(1)),
          newSpecial64(signc_positive, kind_signaling)}
    ELSE {value32(signc_positive, 0, U32(0)), value32(signc_positive, 0, U32(1)),
          newSpecial32(signc_positive, kind_signaling)}

Init ==
    /\ fmt \in Formats
    /\ \E traps \in TrapChoices :
          LET n == newContext(IF fmt = "X64" THEN PrecisionDefault64 ELSE PrecisionDefault32,
                              RoundTiesToEven, traps, DefaultLocale,
                              IF fmt = "X64" THEN PrecisionMaximum64 ELSE PrecisionMaximum32)
          IN n.err = "nil" /\ ctx = n.context
    /\ last = Call("new", <<>>, <<>>, 0)
    /\ InitRegistry

Context64_Parse(s) ==
    /\ fmt = "X64"
    /\ LET r == Parse64(ctx, s)
       IN /\ ctx' = r.c
          /\ last' = Call("Parse", <<s>>, r.x, ctx.signals)
    /\ UNCHANGED <<fmt, registry>>

Context32_Parse(s) ==
    /\ fmt = "X32"
    /\ LET r == Parse32(ctx, s)
       IN /\ ctx' = r.c
          /\ last' = Call("Parse", <<s>>, r.x, ctx.signals)
    /\ UNCHANGED <<fmt, registry>>

Context64_Add(a, b) ==
    /\ fmt = "X64"
    /\ LET r == Add64(ctx, a, b)
       IN /\ ctx' = r.c
          /\ last' = Call("Add", <<a, b>>, r.x, ctx.signals)
    /\ UNCHANGED <<fmt, registry>>

Context_HandleSignals(original, fallback) ==
    /\ last' = Call("HandleSignals", <<original, fallback>>,
                    HandleSignals(ctx, original, fallback), ctx.signals)
    /\ UNCHANGED <<ctx, fmt, registry>>

Context_Clone(clear) ==
    /\ last' = Call("Clone", <<clear>>, Clone(ctx, clear), ctx.signals)
    /\ UNCHANGED <<ctx, fmt, registry>>

Context_ClearSignals ==
    /\ ctx' = ClearSignals(ctx)
    /\ last' = Call("ClearSignals", <<>>, <<>>, ctx.signals)
    /\ UNCHANGED <<fmt, registry>>

Context_Signal ==
    /\ last' = Call("Signal", <<>>, ctx.signals, ctx.signals)
    /\ UNCHANGED <<ctx, fmt, registry>>

\* ctx.Signal().Debug() and ctx.Signal().String()
Context_Signal_Debug ==
    /\ last' = Call("Signal.Debug", <<ctx.signals>>, Signal_Debug(ctx.signals), ctx.signals)
    /\ UNCHANGED <<ctx, fmt, registry>>

Context_Signal_String ==
    /\ last' = Call("Signal.String", <<ctx.signals>>, Signal_String(ctx.signals), ctx.signals)
    /\ UNCHANGED <<ctx, fmt, registry>>

Context_Traps ==
    /\ last' = Call("Traps", <<>>, ctx.traps, ctx.signals)
    /\ UNCHANGED <<ctx, fmt, registry>>

Context_Precision ==
    /\ last' = Call("Precision", <<>>, ctx.precision, ctx.signals)
    /\ UNCHANGED <<ctx, fmt, registry>>

Context_Rounding ==
    /\ last' = Call("Rounding", <<>>, ctx.rounding, ctx.signals)
    /\ UNCHANGED <<ctx, fmt, registry>>

Next ==
    \/ \E s \in ParseInputs : Context64_Parse(s)
    \/ \E s \in ParseInputs : Context32_Parse(s)
    \/ \E a \in CtxOperands, b \in CtxOperands : Context64_Add(a, b)
    \/ \E original \in HandleValues(fmt), fallback \in HandleValues(fmt) :
          Context_HandleSignals(original, fallback)
    \/ \E clear \in BOOLEAN : Context_Clone(clear)
    \/ Context_ClearSignals
    \/ Context_Signal
    \/ Context_Signal_Debug
    \/ Context_Signal_String
    \/ Context_Traps
    \/ Context_Precision
    \/ Context_Rounding

Spec == Init /\ [][Next]_vars

----------------------------------------------------------------------------
(* Claims about the context (Spec).                                        *)

\* Bit i of the signal set n.
HasBit(n, i) == (n \div 2^i) % 2 = 1

\* C5: over any sequence of Parse, Add, HandleSignals and accessor calls
\* without a ClearSignals call, the sticky signals after each call include
\* the sticky signals before it.
C5_SignalsMonotone ==
    [][last'.op # "ClearSignals" =>
          \A i \in 0..7 : HasBit(ctx.signals, i) => HasBit(ctx'.signals, i)]_vars

\* An Add on a context that already held Overflow raised InvalidOperation and
\* left Overflow set.
C5_Witness ==
    /\ last.op = "Add"
    /\ last.pre = SignalOverflow
    /\ ctx.signals = SignalOverflow + SignalInvalidOperation

\* C6: HandleSignals(primary, fallback) returns primary when the sticky
\* signals and the trap mask have no bit in common, and fallback when they
\* share at least one bit.
C6_HandleSignalsSelects ==
    last.op = "HandleSignals" =>
        IF \E i \in 0..7 : HasBit(ctx.signals, i) /\ HasBit(ctx.traps, i)
        THEN last.res = last.args[2]
        ELSE last.res = last.args[1]

\* HandleSignals returned the fallback, which differs from the primary, on a
\* context whose sticky signals meet its traps; and the sticky signals also
\* hold a bit that is not trapped.
C6_Witness ==
    /\ last.op = "HandleSignals"
    /\ last.args[1] # last.args[2]
    /\ last.res = last.args[2]
    /\ ctx.traps = BasicTraps
    /\ ctx.signals = SignalConversionSyntax

----------------------------------------------------------------------------
(* Addition: one Add of two operands on a fresh context.                   *)

MaxOpExp == 2

\* Coefficients of the finite operands.
AddCoes == {U64(0), U64(1), U64(77), U64(123)}

\* NaNs and infinities of both signs, and finite values of both signs with
\* exponents from -MaxOpExp to 0.
AddOperands ==
    {newSpecial64(sign, k) : sign \in Signs,
                             k \in {kind_signaling, kind_quiet, kind_infinity}}
        \cup {value64(sign, -e, coe) : sign \in Signs, e \in 0..MaxOpExp, coe \in AddCoes}

InitAdd ==
    /\ fmt = "X64"
    /\ \E p \in {PrecisionMinimum, PrecisionDefault64} :
          LET n == newContext(p, RoundTiesToEven, BasicTraps, DefaultLocale,
                              PrecisionMaximum64)
          IN n.err = "nil" /\ ctx = n.context
    /\ last = Call("new", <<>>, <<>>, 0)
    /\ InitRegistry

AddOnce(a, b) ==
    /\ last.op = "new"
    /\ Context64_Add(a, b)

NextAdd == \E a \in AddOperands, b \in AddOperands : AddOnce(a, b)

SpecAdd == InitAdd /\ [][NextAdd]_vars

----------------------------------------------------------------------------
(* Claims about Add (SpecAdd).  The operands and the result are read with  *)
(* unpack; the coefficients of AddOperands are small enough for UVal.      *)

IsNaN(u) == u.kind = kind_signaling \/ u.kind = kind_quiet

Min(m, n) == IF m < n THEN m ELSE n

\* The coefficient of u scaled to the exponent e (e <= u.exp).
Scaled(u, e) == UVal(u.coe) * Ten(u.exp - e)

\* The number of decimal digits of the number n (1 for 0), 0 <= n < 10^9.
Digits10(n) == CHOOSE k \in 1..9 : (k = 1 \/ n >= Ten(k - 1)) /\ n < Ten(k)

\* The coefficient the aligned addition of ua and ub should give.
AlignedSum(ua, ub) ==
    LET e == Min(ua.exp, ub.exp)
    IN IF ua.sign = ub.sign THEN Scaled(ua, e) + Scaled(ub, e)
       ELSE IF Scaled(ua, e) >= Scaled(ub, e) THEN Scaled(ua, e) - Scaled(ub, e)
       ELSE Scaled(ub, e) - Scaled(ua, e)

\* C7: for finite operands whose aligned sum needs no rounding (it has at
\* most ctx.precision digits, so it does not overflow either), Add returns a
\* finite value whose exponent is the smaller of the two exponents and whose
\* coefficient is the sum, or the absolute difference when the signs differ,
\* of the coefficients scaled to that exponent.
C7_AddAlignsAndSums ==
    last.op = "Add" =>
        LET ua == unpack64(last.args[1])
            ub == unpack64(last.args[2])
            ur == unpack64(last.res)
        IN (/\ ua.kind = kind_finite
            /\ ub.kind = kind_finite
            /\ Digits10(AlignedSum(ua, ub)) <= ctx.precision)
           => /\ ur.kind = kind_finite
              /\ ur.exp = Min(ua.exp, ub.exp)
              /\ ur.coe = U64(AlignedSum(ua, ub))

\* The operand a NaN result is copied from: the first signaling NaN, or else
\* the first quiet NaN.
NaNSource(ua, ub) ==
    IF ua.kind = kind_signaling THEN ua
    ELSE IF ub.kind = kind_signaling THEN ub
    ELSE IF ua.kind = kind_quiet THEN ua
    ELSE ub

\* C8: when at least one operand of Add is a NaN, the result is a quiet NaN
\* with the sign of the first signaling-NaN operand if there is one, and of
\* the first quiet-NaN operand otherwise.
C8_AddNaNGivesQuietNaN ==
    last.op = "Add" =>
        LET ua == unpack64(last.args[1])
            ub == unpack64(last.args[2])
            ur == unpack64(last.res)
        IN (IsNaN(ua) \/ IsNaN(ub))
           => /\ ur.kind = kind_quiet
              /\ ur.sign = NaNSource(ua, ub).sign

\* C9: after an Add in which at least one operand is a signaling NaN, the
\* sticky signals of the context hold InvalidOperation.
C9_AddSignalingNaNRaisesInvalid ==
    last.op = "Add" =>
        ((unpack64(last.args[1]).kind = kind_signaling
             \/ unpack64(last.args[2]).kind = kind_signaling)
         => BitAnd(ctx.signals, SignalInvalidOperation) = SignalInvalidOperation)

\* C10: Add of an infinity and a finite value of either sign returns the
\* infinity of the first operand's sign.
C10_AddInfinityFinite ==
    last.op = "Add" =>
        LET ua == unpack64(last.args[1])
            ub == unpack64(last.args[2])
            ur == unpack64(last.res)
        IN (ua.kind = kind_infinity /\ ub.kind = kind_finite)
           => /\ ur.kind = kind_infinity
              /\ ur.sign = ua.sign

\* C11: Add of two infinities with opposite signs, in either operand order,
\* sets InvalidOperation in the sticky signals and returns a signaling NaN;
\* Add of two infinities with equal signs returns the infinity of that sign.
C11_AddInfinities ==
    last.op = "Add" =>
        LET ua == unpack64(last.args[1])
            ub == unpack64(last.args[2])
            ur == unpack64(last.res)
        IN (ua.kind = kind_infinity /\ ub.kind = kind_infinity)
           => IF ua.sign = ub.sign
              THEN ur.kind = kind_infinity /\ ur.sign = ua.sign
              ELSE /\ ur.kind = kind_signaling
                   /\ HasBit(ctx.signals, 6)

\* C12: when the finite operands of Add have different signs, the result has
\* the sign of the operand whose aligned coefficient is larger, and when the
\* two aligned coefficients are equal (the result coefficient is 0) the
\* result sign is positive.
C12_AddDifferentSigns ==
    last.op = "Add" =>
        LET ua == unpack64(last.args[1])
            ub == unpack64(last.args[2])
            ur == unpack64(last.res)
            e == Min(ua.exp, ub.exp)
        IN (ua.kind = kind_finite /\ ub.kind = kind_finite /\ ua.sign # ub.sign)
           => ur.sign = IF Scaled(ua, e) > Scaled(ub, e) THEN ua.sign
                        ELSE IF Scaled(ub, e) > Scaled(ua, e) THEN ub.sign
                        ELSE signc_positive

\* C13: for all finite a and b whose sum neither overflows nor is rounded
\* (the aligned sum has at most ctx.precision digits), Add(a, b) and
\* Add(b, a) return the same packed value.
C13_AddCommutes ==
    last.op = "Add" =>
        LET ua == unpack64(last.args[1])
            ub == unpack64(last.args[2])
        IN (/\ ua.kind = kind_finite
            /\ ub.kind = kind_finite
            /\ Digits10(AlignedSum(ua, ub)) <= ctx.precision)
           => last.res = Add64([ctx EXCEPT !.signals = last.pre],
                               last.args[2], last.args[1]).x

----------------------------------------------------------------------------
(* Parsing: a Parse on a fresh context of either format, or on a context   *)
(* whose only earlier call was a Parse of the empty string.                *)

\* The parts numeric inputs are put together from: a sign, integer digits
\* (among them 2^23 and 2^53, which pack stores in the large-coefficient
\* layouts, 10^7 and 10^16, one more than the maximum coefficients,
\* 10^20, more than a uint64 holds, and nines, one digit more of them than
\* the default precisions) and a fraction.
ParseSigns == {<<>>, <<"+">>, <<"-">>}
ParseInts ==
    { <<>>, <<"0">>, <<"1", "2">>,
      <<"9", "9", "9", "9", "9", "9">>,
      <<"9", "9", "9", "9", "9", "9", "9", "9", "9", "9">>,
      <<"8", "3", "8", "8", "6", "0", "8">>,
      <<"1", "0", "0", "0", "0", "0", "0", "0">>,
      <<"9", "0", "0", "7", "1", "9", "9", "2", "5", "4", "7", "4", "0", "9", "9", "2">>,
      <<"1", "0", "0", "0", "0", "0", "0", "0", "0", "0", "0", "0", "0", "0", "0", "0", "0">>,
      <<"1", "0", "0", "0", "0", "0", "0", "0", "0", "0", "0", "0", "0", "0", "0", "0", "0", "0", "0", "0", "0">> }
ParseFracs == {<<>>, <<".">>, <<".", "5">>, <<".", "0", "5">>}

\* Inputs that are not plain numbers: names of special values in several
\* spellings, blanks, separators, letters, several points.
ParseWords ==
    { <<"n", "a", "n">>, <<"+", "n", "a", "n">>, <<"-", "n", "a", "n">>, <<"N", "a", "N">>, <<"i", "n", "f">>, <<"+", "i", "n", "f">>, <<"-", "i", "n", "f">>,
      <<"i", "n", "f", "i", "n", "i", "t", "y">>, <<"+", "i", "n", "f", "i", "n", "i", "t", "y">>,
      <<"-", "i", "n", "f", "i", "n", "i", "t", "y">>,
      <<" ", "I", "n", "f", " ">>, <<"-", "I", "N", "F", "I", "N", "I", "T", "Y">>,
      <<" ", " ">>, <<",">>, <<"1", ".", "2", ".", "3">>, <<"1", "e", "5">>, <<"1", "2", "a">>, <<"n", "_", "a", "n">>,
      <<"1", ",", "0", "0", "0", ".", "2", "5">>, <<".", ".">>, <<"s", "n", "a", "n">>,
      <<"U+000B", "1">>, <<"1", "U+00A0">>, <<"U+0085", "I", "n", "f">>,
      <<"U+00C0", "1">>, <<"U+0130", "n", "f">>, <<"-", "U+0130", "N", "F">>,
      <<"U+212A", "1">>, <<"1", ".", "U+00E9">>, <<"1", ".", "U+20AC">>,
      <<"U+2C2F", "1">> }

\* The literal 10^eMin32 written out: a point, zeros and a one in the last
\* place of the X32 format.
SmallestLiteral == <<".">> \o Repeat("0", -eMin32 - 1) \o <<"1">>

ParseStrings ==
    {sign \o int \o frac : sign \in ParseSigns, int \in ParseInts, frac \in ParseFracs}
        \cup ParseWords \cup {SmallestLiteral}

\* The precisions of the contexts: the default and the maximum of the format.
ParsePrecisions(f) ==
    IF f = "X64" THEN {PrecisionDefault64, PrecisionMaximum64}
    ELSE {PrecisionDefault32, PrecisionMaximum32}

InitParse ==
    /\ fmt \in Formats
    /\ \E p \in ParsePrecisions(fmt) :
          LET n == newContext(p, RoundTiesToEven, BasicTraps, DefaultLocale,
                              IF fmt = "X64" THEN PrecisionMaximum64 ELSE PrecisionMaximum32)
          IN n.err = "nil" /\ ctx = n.context
    /\ last = Call("new", <<>>, <<>>, 0)
    /\ InitRegistry

ParseNext(s) ==
    /\ last.op = "new" \/ (last.op = "Parse" /\ last.args[1] = <<>>)
    /\ (Context64_Parse(s) \/ Context32_Parse(s))

NextParse == \E s \in ParseStrings : ParseNext(s)

SpecParse == InitParse /\ [][NextParse]_vars

----------------------------------------------------------------------------
(* Claims about Parse (SpecParse).  The input is read again here, apart     *)
(* from the parser: sign, digits before and after the point.               *)

LitSign(s) == IF s # <<>> /\ s[1] = "-" THEN signc_negative ELSE signc_positive
LitBody(s) == IF s # <<>> /\ s[1] \in {"+", "-"} THEN Tail(s) ELSE s
LitPoints(s) == {i \in 1..Len(LitBody(s)) : LitBody(s)[i] = "."}
LitPoint(s) == CHOOSE i \in LitPoints(s) : TRUE
LitInt(s) == IF LitPoints(s) = {} THEN LitBody(s)
             ELSE SubSeq(LitBody(s), 1, LitPoint(s) - 1)
LitFrac(s) == IF LitPoints(s) = {} THEN <<>>
              ELSE SubSeq(LitBody(s), LitPoint(s) + 1, Len(LitBody(s)))
AllDigits(d) == \A i \in 1..Len(d) : \E k \in 1..10 : Digits[k] = d[i]

\* s has one of the forms [+|-]INT, [+|-]INT.FRAC, [+|-].FRAC.
IsLiteral(s) ==
    /\ Cardinality(LitPoints(s)) <= 1
    /\ AllDigits(LitInt(s))
    /\ AllDigits(LitFrac(s))
    /\ IF LitPoints(s) = {} THEN LitInt(s) # <<>> ELSE LitFrac(s) # <<>>

\* The digits of the literal s, INT followed by FRAC, and their number as a
\* wide word.
LitDigits(s) == LitInt(s) \o LitFrac(s)
LitValue(s) ==
    LET d == LitDigits(s)
        nonzero == {i \in 1..Len(d) : d[i] # "0"}
        \* the digits from the first that is not 0 (zeros in front add nothing)
        sd == IF nonzero = {} THEN <<>>
              ELSE SubSeq(d, CHOOSE i \in nonzero : \A j \in nonzero : i <= j, Len(d))
    IN UDec([i \in 1..Len(sd) |-> (CHOOSE k \in 1..10 : Digits[k] = sd[i]) - 1], 5)

\* C14: for every numeric literal [+|-]INT, [+|-]INT.FRAC or [+|-].FRAC whose
\* digits form an integer of at most MaxCoefficient(format) with no more
\* digits than the context precision, Parse returns a finite value with the
\* literal's sign, the coefficient formed by INT followed by FRAC and the
\* exponent -len(FRAC), and adds no signal to the context.
C14_ParseLiteral ==
    last.op = "Parse" =>
        LET s == last.args[1]
            ur == unpack(fmt, last.res)
        IN (/\ IsLiteral(s)
            /\ ULe(LitValue(s), Wide(MaxCoefficient(fmt)))
            /\ Len(LitDigits(s)) <= ctx.precision)
           => /\ ur.kind = kind_finite
              /\ ur.sign = LitSign(s)
              /\ Wide(ur.coe) = LitValue(s)
              /\ ur.exp = -Len(LitFrac(s))
              /\ ctx.signals = last.pre

\* The names of the special values, as the specification lists them.
NaNTokens == {<<"n", "a", "n">>, <<"+", "n", "a", "n">>, <<"-", "n", "a", "n">>}
InfinityTokens ==
    { <<"i", "n", "f">>, <<"+", "i", "n", "f">>, <<"-", "i", "n", "f">>,
      <<"i", "n", "f", "i", "n", "i", "t", "y">>,
      <<"+", "i", "n", "f", "i", "n", "i", "t", "y">>,
      <<"-", "i", "n", "f", "i", "n", "i", "t", "y">> }

\* The normalized input n is malformed: empty, more than one point, a point
\* with no digit on either side, or a character that is not a digit (apart
\* from the sign in front, the point, and the names of the special values).
Malformed(n) ==
    \/ n = <<>>
    \/ Cardinality(LitPoints(n)) > 1
    \/ LitBody(n) = <<".">>
    \/ /\ n \notin NaNTokens \cup InfinityTokens
       /\ \E i \in 1..Len(LitBody(n)) :
             LitBody(n)[i] # "." /\ ~AllDigits(<<LitBody(n)[i]>>)

\* C15: Parse of an input that after normalization is empty, has more than
\* one decimal point, has no digit on either side of the point, or holds a
\* character that is not a digit, returns a signaling NaN and sets
\* ConversionSyntax in the sticky signals of the context.
C15_ParseMalformed ==
    last.op = "Parse" =>
        (Malformed(normalizeInput(last.args[1], ctx.locale))
         => /\ unpack(fmt, last.res).kind = kind_signaling
            /\ BitAnd(ctx.signals, SignalConversionSyntax) = SignalConversionSyntax)

\* A Parse of "1.2.3" on a context with clear signals returned a signaling
\* NaN and left ConversionSyntax as the only signal.
C15_Witness ==
    /\ last.op = "Parse"
    /\ last.args[1] = <<"1", ".", "2", ".", "3">>
    /\ last.pre = 0
    /\ unpack(fmt, last.res).kind = kind_signaling
    /\ ctx.signals = SignalConversionSyntax

\* C16: when the integer formed by the digits of a numeric literal exceeds
\* MaxCoefficient(format), or the exponent of the literal exceeds E_max,
\* Parse sets Overflow in the sticky signals of the context and returns a
\* signaling NaN.
C16_ParseOverflow ==
    last.op = "Parse" =>
        LET s == last.args[1]
        IN (/\ IsLiteral(s)
            /\ \/ UGt(LitValue(s), Wide(MaxCoefficient(fmt)))
               \/ -Len(LitFrac(s)) > EMax(fmt))
           => /\ unpack(fmt, last.res).kind = kind_signaling
              /\ HasBit(ctx.signals, 0)

\* C17: after normalization, Parse maps nan, +nan and -nan to a quiet NaN and
\* inf, infinity, +inf, +infinity, -inf and -infinity to an Infinity, with
\* the sign the name gives (negative only for a leading "-"), and adds no
\* signal to the context.
C17_ParseSpecial ==
    last.op = "Parse" =>
        LET n == normalizeInput(last.args[1], ctx.locale)
            ur == unpack(fmt, last.res)
        IN (n \in NaNTokens \cup InfinityTokens)
           => /\ ur.kind = IF n \in NaNTokens THEN kind_quiet ELSE kind_infinity
              /\ ur.sign = LitSign(n)
              /\ ctx.signals = last.pre

\* A Parse of "-INFINITY" on an X32 context that held ConversionSyntax
\* returned the negative Infinity.
C17_Witness ==
    /\ last.op = "Parse"
    /\ fmt = "X32"
    /\ last.args[1] = <<"-", "I", "N", "F", "I", "N", "I", "T", "Y">>
    /\ last.pre = SignalConversionSyntax
    /\ unpack32(last.res) = Unpacked(kind_infinity, signc_negative, 0, U32(0))

----------------------------------------------------------------------------
(* Formatting: String of a value, Parse of the string on the basic context *)
(* and String of what Parse returned.                                      *)

MaxFmtExp == 8

\* Exponents on both sides of the limit of the plain notation, and far ones.
FormatExps == (-MaxFmtExp)..MaxFmtExp \cup {-20, 20}

\* Coefficients with one and several digits, with and without zeros at the
\* end, with as many digits as the default precision, and 2^53 - 1.
FormatCoes ==
    { U64(0), U64(1), U64(5), U64(10), U64(120), U64(12345),
      UDec(<<1, 2, 3, 0, 0, 0, 0>>, 4),
      UDec(<<1, 2, 3, 4, 5, 6, 7, 8, 9>>, 4),
      USub(UShl(U64(1), 53), U64(1)) }

FormatValues ==
    {newSpecial64(sign, k) : sign \in Signs,
                             k \in {kind_signaling, kind_quiet, kind_infinity}}
        \cup {value64(sign, e, coe) : sign \in Signs, e \in FormatExps, coe \in FormatCoes}

InitFormat ==
    /\ fmt = "X64"
    /\ ctx = BasicContext64
    /\ last = Call("new", <<>>, <<>>, 0)
    /\ InitRegistry

\* String of a value of the pool.
X64_String(x) ==
    /\ last.op = "new"
    /\ last' = Call("String", <<x>>, String64(x), ctx.signals)
    /\ UNCHANGED <<ctx, fmt, registry>>

\* Parse of the string String returned.
ParseString ==
    /\ last.op = "String"
    /\ Context64_Parse(last.res)

\* String of the value Parse returned.
StringParsed ==
    /\ last.op = "Parse"
    /\ last' = Call("String", <<last.res>>, String64(last.res), ctx.signals)
    /\ UNCHANGED <<ctx, fmt, registry>>

NextFormat ==
    \/ \E x \in FormatValues : X64_String(x)
    \/ ParseString
    \/ StringParsed

SpecFormat == InitFormat /\ [][NextFormat]_vars

----------------------------------------------------------------------------
(* Claims about String (SpecFormat).  The string returned is read back     *)
(* here: its digits are turned into a number and compared with the        *)
(* coefficient.                                                            *)

DigitVals(d) == [i \in 1..Len(d) |-> (CHOOSE k \in 1..10 : Digits[k] = d[i]) - 1]

\* d is the decimal writing of the non-zero coefficient c.
IsDigitsOf(d, c) ==
    /\ d # <<>>
    /\ AllDigits(d)
    /\ d[1] # "0"
    /\ UDec(DigitVals(d), 4) = c

AllZeros(z) == \A i \in 1..Len(z) : z[i] = "0"

RECURSIVE StripZeros(_)
StripZeros(s) == IF s # <<>> /\ s[1] = "0" THEN StripZeros(Tail(s)) ELSE s

\* b is the digits of c followed by e zeros (e >= 0).
PlainUp(b, e, c) ==
    /\ Len(b) > e
    /\ AllZeros(SubSeq(b, Len(b) - e + 1, Len(b)))
    /\ IsDigitsOf(SubSeq(b, 1, Len(b) - e), c)

\* b is the digits of c with a point k places from the right (k > 0),
\* written as 0. and leading zeros when c has no more than k digits.
PlainDown(b, k, c) ==
    /\ Len(b) >= k + 2
    /\ b[Len(b) - k] = "."
    /\ LET ip == SubSeq(b, 1, Len(b) - k - 1)
           fp == SubSeq(b, Len(b) - k + 1, Len(b))
           d == StripZeros(ip \o fp)
       IN /\ AllDigits(ip \o fp)
          /\ IsDigitsOf(d, c)
          /\ IF Len(d) > k THEN ip \o fp = d ELSE ip = <<"0">>

\* b is m.fffe+x or m.fffe-x: one digit before the point, at least one after
\* it and no zero at the end unless it is the only one, an exponent x with
\* its sign, and m, fff and zeros up to x - e + 1 digits are the digits of c.
Scientific(b, e, c) ==
    /\ Cardinality({i \in 1..Len(b) : b[i] = "e"}) = 1
    /\ LET ePos == CHOOSE i \in 1..Len(b) : b[i] = "e"
           mant == SubSeq(b, 1, ePos - 1)
           frac == SubSeq(mant, 3, Len(mant))
           ex == SubSeq(b, ePos + 1, Len(b))
           adj == (IF ex[1] = "-" THEN -1 ELSE 1) * UVal(UDec(DigitVals(Tail(ex)), 2))
           n == adj - e + 1
           md == <<mant[1]>> \o frac
       IN /\ Len(mant) >= 3
          /\ mant[2] = "."
          /\ AllDigits(md)
          /\ frac = <<"0">> \/ frac[Len(frac)] # "0"
          /\ Len(ex) >= 2
          /\ ex[1] \in {"+", "-"}
          /\ AllDigits(Tail(ex))
          /\ Tail(ex) = <<"0">> \/ ex[2] # "0"
          /\ n >= 1
          /\ IF Len(md) <= n
             THEN IsDigitsOf(md \o [i \in 1..(n - Len(md)) |-> "0"], c)
             ELSE n = 1 /\ frac = <<"0">> /\ IsDigitsOf(<<mant[1]>>, c)

\* C19: the string of a finite value with non-zero coefficient c and
\* exponent e is, when |e| <= 6, plain notation (the digits of c followed by
\* e zeros when e >= 0; otherwise the digits of c with a point |e| places
\* from the right, written as 0. and leading zeros when c has no more than
\* |e| digits), and otherwise scientific notation with one digit before the
\* point, the zeros at the end trimmed but one digit kept after the point,
\* and the exponent e + digits(c) - 1 written with its sign; a negative
\* value starts with "-" and a positive value carries no "+".
C19_CanonicalString ==
    last.op = "String" =>
        LET u == unpack64(last.args[1])
            r == last.res
            b == IF r # <<>> /\ r[1] = "-" THEN Tail(r) ELSE r
        IN (u.kind = kind_finite /\ u.coe # U64(0))
           => /\ r # <<>>
              /\ (r[1] = "-") <=> (u.sign = signc_negative)
              /\ b # <<>> /\ b[1] # "+"
              /\ IF u.exp > 6 \/ u.exp < -6 THEN Scientific(b, u.exp, u.coe)
                 ELSE IF u.exp >= 0 THEN PlainUp(b, u.exp, u.coe)
                 ELSE PlainDown(b, -u.exp, u.coe)

\* String returned "-1.2e-5" for -120 x 10^-7: scientific notation of a
\* negative value with a zero trimmed.
C19_Witness ==
    /\ last.op = "String"
    /\ unpack64(last.args[1]) = Unpacked(kind_finite, signc_negative, -7, U64(120))
    /\ last.res = <<"-", "1", ".", "2", "e", "-", "5">>

\* The string s is the string of a finite value: after the sign it starts
\* with a digit.
IsFiniteString(s) == LitBody(s) # <<>> /\ AllDigits(<<LitBody(s)[1]>>)

\* The digits of the string s in front of its exponent part.
MantissaDigits(s) ==
    SelectSeq(SubSeq(s, 1, IF \E i \in 1..Len(s) : s[i] = "e"
                           THEN (CHOOSE i \in 1..Len(s) : s[i] = "e") - 1
                           ELSE Len(s)),
              LAMBDA ch : AllDigits(<<ch>>))

\* C18: for every canonical decimal string s (what String returns for some
\* finite value) whose value fits the format at the default precision (it
\* has no more digits than the default precision), String of the value
\* Parse(s) returns on the basic context is exactly s.
C18_ParseFormatRoundTrip ==
    [][(/\ last.op = "Parse"
        /\ last'.op = "String"
        /\ IsFiniteString(last.args[1])
        /\ Len(MantissaDigits(last.args[1])) <= PrecisionDefault64)
       => last'.res = last.args[1]]_vars

----------------------------------------------------------------------------
(* Quantization: one quantize of a finite or special value to a target     *)
(* exponent.                                                               *)

MaxShift == 2

\* Coefficients: a quotient followed by up to MaxShift digits on both sides
\* of the half.
QuantCoes ==
    UNION {{q * Ten(d) + r : q \in {0, 12, 999}, r \in RoundRemainders(d)} : d \in 1..MaxShift}

\* Exponents of the values: near the targets, and so far below them that
\* the power of ten is beyond the table of the 32-bit or of both widths.
QuantExps == {-21, -12} \cup ((-MaxShift)..0)
\* Targets on both sides of the exponents, as near and as far.
QuantTargets == {-21, -12} \cup ((-MaxShift)..MaxShift)

QuantValues(f) ==
    IF f = "X64"
    THEN {newSpecial64(signc_positive, kind_infinity), newSpecial64(signc_negative, kind_quiet)}
            \cup {value64(sign, e, U64(n)) : sign \in Signs, e \in QuantExps, n \in QuantCoes}
    ELSE {newSpecial32(signc_positive, kind_infinity), newSpecial32(signc_negative, kind_quiet)}
            \cup {value32(sign, e, U32(n)) : sign \in Signs, e \in QuantExps, n \in QuantCoes}

InitQuantize ==
    /\ fmt \in Formats
    /\ ctx = BasicContext(fmt)
    /\ last = Call("new", <<>>, <<>>, 0)
    /\ InitRegistry

Quantize64(x, expTarget, mode) ==
    /\ fmt = "X64"
    /\ last.op = "new"
    /\ last' = Call("quantize", <<x, expTarget, mode>>, quantize64(x, expTarget, mode), 0)
    /\ UNCHANGED <<ctx, fmt, registry>>

Quantize32(x, expTarget, mode) ==
    /\ fmt = "X32"
    /\ last.op = "new"
    /\ last' = Call("quantize", <<x, expTarget, mode>>, quantize32(x, expTarget, mode), 0)
    /\ UNCHANGED <<ctx, fmt, registry>>

NextQuantize ==
    \/ \E x \in QuantValues("X64"), t \in QuantTargets, mode \in Roundings :
          Quantize64(x, t, mode)
    \/ \E x \in QuantValues("X32"), t \in QuantTargets, mode \in Roundings :
          Quantize32(x, t, mode)

SpecQuantize == InitQuantize /\ [][NextQuantize]_vars

----------------------------------------------------------------------------
(* Claim about quantize (SpecQuantize), stated in words of five limbs.     *)

\* C20: for a finite x and a target exponent t greater than the exponent of
\* x, quantize(x, t, mode) returns a finite value with the sign of x, the
\* exponent t and the coefficient q or q + 1, where q and r are the quotient
\* and the remainder of the coefficient of x by 10^(t - exponent), and q is
\* incremented exactly when the rule of the mode holds for r (TiesToEven,
\* TiesToAway, TowardPositive, TowardNegative as in the rounding engine;
\* TowardZero never).
C20_QuantizeRounds ==
    last.op = "quantize" =>
        LET u == unpack(fmt, last.args[1])
            t == last.args[2]
            mode == last.args[3]
            ur == unpack(fmt, last.res.x)
            d == t - u.exp
            coef == Wide(u.coe)
            c == Wide(ur.coe)
            kept == UMul(c, TenTo(d))
            below == UMul(USub(c, UInt(1, 5)), TenTo(d))
        IN (u.kind = kind_finite /\ t > u.exp)
           => /\ ~last.res.panic
              /\ ur.kind = kind_finite
              /\ ur.sign = u.sign
              /\ ur.exp = t
              /\ IF ULe(kept, coef)
                 THEN \* c is the quotient: it was not incremented
                      /\ ULt(USub(coef, kept), TenTo(d))
                      /\ ~IncrementRule(mode, c, USub(coef, kept), d, u.sign)
                 ELSE \* c is the quotient plus one: it was incremented
                      /\ ULe(below, coef)
                      /\ IncrementRule(mode, USub(c, UInt(1, 5)), USub(coef, below), d, u.sign)

\* C21: for a finite x and a target exponent t less than the exponent of x,
\* quantize(x, t, mode) returns, with no signal, the finite value with the
\* exponent t and the coefficient of x times 10^(exponent - t) when that
\* product is at most MaxCoefficient, and the zero value with the signal
\* Overflow when the product is greater.
C21_QuantizeScalesUp ==
    last.op = "quantize" =>
        LET u == unpack(fmt, last.args[1])
            t == last.args[2]
            ur == unpack(fmt, last.res.x)
            d == u.exp - t
            \* beyond 16 digits every product of a non-zero coefficient is
            \* above MaxCoefficient
            prod == UMul(Wide(u.coe), TenTo(Min(d, 17)))
        IN (u.kind = kind_finite /\ t < u.exp)
           => /\ ~last.res.panic
              /\ IF ULe(prod, Wide(MaxCoefficient(fmt)))
                 THEN /\ last.res.sig = 0
                      /\ ur.kind = kind_finite
                      /\ ur.exp = t
                      /\ Wide(ur.coe) = prod
                 ELSE /\ last.res.sig = SignalOverflow
                      /\ last.res.x = UZero(Len(last.args[1]))

\* C24: quantize, called with any packed operand and any target exponent,
\* always returns a packed value to the caller: no shift, however large,
\* ends the call in a run-time panic.  (Parse and Add have no step that can
\* panic on a context that is not nil.)
C24_QuantizeReturns ==
    last.op = "quantize" => ~last.res.panic

----------------------------------------------------------------------------
(* Further claims about the context (Spec).                                *)

\* C22: Clone(clear) returns a new context whose precision, rounding mode,
\* trap mask and locale equal those of the original, and whose sticky
\* signals equal the original's when clear is false and are empty when clear
\* is true.
C22_CloneCopies ==
    last.op = "Clone" =>
        /\ last.res.precision = ctx.precision
        /\ last.res.rounding = ctx.rounding
        /\ last.res.traps = ctx.traps
        /\ last.res.locale = ctx.locale
        /\ last.res.signals = (IF last.args[1] THEN 0 ELSE ctx.signals)

\* C23: in every reachable state of a context, after any sequence of Parse,
\* Add and ClearSignals calls, the sticky signals that hold the
\* ConversionSyntax bit hold the InvalidOperation bit as well.
C23_SyntaxImpliesInvalid ==
    HasBit(ctx.signals, 7) => HasBit(ctx.signals, 6)

\* A Parse of malformed input on a context with clear signals set the
\* ConversionSyntax bit.
C23_Witness ==
    /\ last.op = "Parse"
    /\ last.pre = 0
    /\ HasBit(ctx.signals, 7)

\* C30: the display (String) and the debug form of a signal set name a flag
\* exactly when the set contains that flag, every bit of it: a set that holds
\* InvalidOperation without the ConversionSyntax bit is not shown as
\* ConversionSyntax, and the empty set shows no flag name.
C30_DisplayNamesContainedFlags ==
    LET s == last.args[1]
        shown == {last.res[i] : i \in 1..Len(last.res)}
    IN /\ last.op = "Signal.String" =>
            \A i \in 1..Len(stringFlags) :
                stringFlags[i].name \in shown
                    <=> BitAnd(s, stringFlags[i].flag) = stringFlags[i].flag
       /\ last.op = "Signal.Debug" =>
            \A i \in 1..Len(debugFlags) :
                debugFlags[i].symbol \in shown
                    <=> BitAnd(s, debugFlags[i].flag) = debugFlags[i].flag

----------------------------------------------------------------------------
(* Addition at the top of the exponent range: one Add of two values packed *)
(* from finite components with large exponents.                            *)

\* Coefficients whose sums have up to one digit more than the precisions of
\* InitAdd.
EdgeCoes == {U64(0), U64(1), U64(999), UDec(<<9, 9, 9, 9, 9, 9, 9, 9, 9>>, 4)}

\* The first exponents whose biased value has both of its top bits set, and
\* the largest exponent.
EdgeExps == (3 * 2^8 - bias64)..(3 * 2^8 - bias64 + 3) \cup {eMax64}

EdgeOperands ==
    {value64(sign, e, coe) : sign \in Signs, e \in EdgeExps, coe \in EdgeCoes}

NextAddEdge == \E a \in EdgeOperands, b \in EdgeOperands : AddOnce(a, b)

SpecAddEdge == InitAdd /\ [][NextAddEdge]_vars

\* C29: when both operands of Add are finite, Add returns a value that is not
\* finite (an Infinity or a NaN) only if the call adds at least one signal to
\* the sticky signals of the context.
C29_AddNonFiniteSignals ==
    last.op = "Add" =>
        LET ua == unpack64(last.args[1])
            ub == unpack64(last.args[2])
            ur == unpack64(last.res)
        IN (ua.kind = kind_finite /\ ub.kind = kind_finite /\ ur.kind # kind_finite)
           => ctx.signals # last.pre

----------------------------------------------------------------------------
(* Further claims about Parse (SpecParse).                                 *)

\* C27: every finite value that Parse returns on a context of precision p
\* has a coefficient of at most p decimal digits, also when the rounding
\* carried into one more leading digit.
C27_CoefficientWithinPrecision ==
    last.op = "Parse" =>
        LET ur == unpack(fmt, last.res)
        IN ur.kind = kind_finite => DecDigits(Wide(ur.coe)) <= ctx.precision

\* C28: whenever Parse returns a signaling NaN, the sticky signals hold
\* ConversionSyntax or Overflow after the call (set by it when they were
\* clear before); and a numeric literal for which the call raises neither
\* gives a finite value of at most precision digits.
C28_ParseSignalsItsNaN ==
    last.op = "Parse" =>
        LET s == last.args[1]
            ur == unpack(fmt, last.res)
            raised == HasBit(ctx.signals, 7) \/ HasBit(ctx.signals, 0)
        IN /\ ur.kind = kind_signaling => raised
           /\ (IsLiteral(s) /\ last.pre = 0 /\ ~raised)
              => /\ ur.kind = kind_finite
                 /\ DecDigits(Wide(ur.coe)) <= ctx.precision

----------------------------------------------------------------------------
(* A further claim about the codec (SpecCodec).                            *)

\* C26: packing (finite, positive, 0, 0) and packing (finite, negative, 0, 0)
\* both succeed and give two different bit patterns; each of them unpacks to
\* a finite value with the coefficient 0 and its own sign, and isZero is
\* true of each.
C26_SignedZeros ==
    LET zero == UZero(IF fmt = "X64" THEN 4 ELSE 2)
        positive == packResult(fmt, kind_finite, signc_positive, 0, zero)
        negative == packResult(fmt, kind_finite, signc_negative, 0, zero)
    IN /\ (/\ last.op = "pack"
           /\ last.args[1] = kind_finite
           /\ last.args[2] \in Signs
           /\ last.args[3] = 0
           /\ last.args[4] = zero)
          => /\ ~last.res.err
             /\ ~positive.err /\ ~negative.err
             /\ positive.x # negative.x
             /\ last.res.x \in {positive.x, negative.x}
             /\ unpack(fmt, last.res.x) = Unpacked(kind_finite, last.args[2], 0, zero)
       /\ (last.op = "isZero" /\ last.args[1] \in {positive.x, negative.x})
          => last.res

\* isZero was asked of the packed negative zero of the X64 format, and
\* answered true.
C26_Witness ==
    /\ last.op = "isZero"
    /\ fmt = "X64"
    /\ last.args[1] = value64(signc_negative, 0, U64(0))
    /\ unpack64(last.args[1]).sign = signc_negative
    /\ last.res

----------------------------------------------------------------------------
(* The payload table under concurrent callers: every goroutine calls       *)
(* encodeDiagnosticInfo and DecodePayload again and again, one statement   *)
(* at a time.                                                              *)

\* What getDiagnosticInfo hands to encodeDiagnosticInfo: the record of a
\* caller that is not known, and of a call site.
DiagnosticInfos ==
    { DiagnosticInfo(<<"u", "n", "k", "n", "o", "w", "n">>, <<"u", "n", "k", "n", "o", "w", "n">>, 0),
      DiagnosticInfo(<<"f", "p", ".", "A", "d", "d">>, <<"/", "x", "6", "4", ".", "g", "o">>, 120) }

\* The payload of each of these records
PayloadOf == [d \in DiagnosticInfos |-> hashDiagnosticInfo(d)]

\* Payloads handed to DecodePayload: those of the records above, registered
\* or not yet, and the payload 0 of a NaN without diagnostics.
Payloads == {PayloadOf[d] : d \in DiagnosticInfos} \cup {U64(0)}

InitDiag ==
    /\ fmt = "X64"
    /\ ctx = BasicContext64
    /\ last = Call("new", <<>>, <<>>, 0)
    /\ InitRegistry

\* encodeDiagnosticInfo(diag) is entered: payload := hashDiagnosticInfo(diag)
Call_encodeDiagnosticInfo(g, diag) ==
    /\ goroutines[g].pc = "idle"
    /\ goroutines' = [goroutines EXCEPT ![g] =
          [pc |-> "Lock", fn |-> "encodeDiagnosticInfo", diag |-> diag,
           payload |-> PayloadOf[diag], exists |-> FALSE]]
    /\ UNCHANGED <<ctx, fmt, last, payloadMap, payloadMutex>>

\* DecodePayload(payload) is entered
Call_DecodePayload(g, payload) ==
    /\ goroutines[g].pc = "idle"
    /\ goroutines' = [goroutines EXCEPT ![g] =
          [pc |-> "Lock", fn |-> "DecodePayload", diag |-> NoDiagnosticInfo,
           payload |-> payload, exists |-> FALSE]]
    /\ UNCHANGED <<ctx, fmt, last, payloadMap, payloadMutex>>

\* payloadMutex.Lock(): the goroutine waits while the mutex is locked.
Lock(g) ==
    /\ goroutines[g].pc = "Lock"
    /\ MutexFree(payloadMutex)
    /\ payloadMutex' = TRUE
    /\ goroutines' = [goroutines EXCEPT ![g].pc = "lookup"]
    /\ UNCHANGED <<ctx, fmt, last, payloadMap>>

\* The read of the map: "_, exists := payloadMap[payload]" of
\* encodeDiagnosticInfo, "diag, exists := payloadMap[payload]" of
\* DecodePayload.
Lookup(g) ==
    /\ goroutines[g].pc = "lookup"
    /\ LET r == goroutines[g]
           exists == r.payload \in DOMAIN payloadMap
       IN goroutines' = [goroutines EXCEPT ![g] =
              IF r.fn = "encodeDiagnosticInfo"
              THEN [r EXCEPT !.exists = exists,
                             !.pc = IF exists THEN "Unlock" ELSE "store"]
              ELSE [r EXCEPT !.exists = exists,
                             !.diag = IF exists THEN payloadMap[r.payload]
                                      ELSE NoDiagnosticInfo,
                             !.pc = "Unlock"]]
    /\ UNCHANGED <<ctx, fmt, last, payloadMap, payloadMutex>>

\* The write of the map: payloadMap[payload] = diag
Store(g) ==
    /\ goroutines[g].pc = "store"
    /\ payloadMap' = (goroutines[g].payload :> goroutines[g].diag) @@ payloadMap
    /\ goroutines' = [goroutines EXCEPT ![g].pc = "Unlock"]
    /\ UNCHANGED <<ctx, fmt, last, payloadMutex>>

\* The return: the deferred payloadMutex.Unlock() runs, and the goroutine
\* leaves the call with the payload (encodeDiagnosticInfo) or with the
\* record and the flag (DecodePayload).
Unlock(g) ==
    /\ goroutines[g].pc = "Unlock"
    /\ payloadMutex' = FALSE
    /\ goroutines' = [goroutines EXCEPT ![g] = Idle]
    /\ UNCHANGED <<ctx, fmt, last, payloadMap>>

NextDiag ==
    \/ \E g \in Goroutines, diag \in DiagnosticInfos : Call_encodeDiagnosticInfo(g, diag)
    \/ \E g \in Goroutines, payload \in Payloads : Call_DecodePayload(g, payload)
    \/ \E g \in Goroutines : Lock(g)
    \/ \E g \in Goroutines : Lookup(g)
    \/ \E g \in Goroutines : Store(g)
    \/ \E g \in Goroutines : Unlock(g)

SpecDiag == InitDiag /\ [][NextDiag]_vars

\* The goroutines that are between Lock and Unlock, and those whose next
\* statement reads or writes the map.
Holding == {g \in Goroutines : goroutines[g].pc \in {"lookup", "store", "Unlock"}}
Touching == {g \in Goroutines : goroutines[g].pc \in {"lookup", "store"}}

\* C25: with any number of goroutines registering payloads
\* (encodeDiagnosticInfo) and looking them up (DecodePayload) concurrently,
\* at most one goroutine at a time reads or writes payloadMap; the mutex is
\* locked whenever a goroutine is about to touch the map, and no goroutine
\* that has returned (or has not locked yet) leaves it locked.
C25_MapGuarded ==
    /\ Cardinality(Touching) <= 1
    /\ Cardinality(Holding) <= 1
    /\ payloadMutex <=> Holding # {}

\* One goroutine is about to write the map while another waits in Lock.
C25_Witness ==
    \E g \in Goroutines, h \in Goroutines :
        /\ g # h
        /\ goroutines[g].pc = "store"
        /\ goroutines[h].pc = "Lock"
        /\ payloadMutex

====
